---- MODULE Spec2Model ----
(***************************************************************************)
(* Super Tic-Tac-Toe: the game-rules engine, the matchmaking actor and the *)
(* per-match session actor, as state machines.                             *)
(*                                                                         *)
(*   SpecEngine      the pure engine (createNewGame / isValidMove /        *)
(*                   applyMove) driven by a caller that plays moves        *)
(*   SpecWin         the winner check applied to every 3x3 board           *)
(*   SpecApply       applyMove on objects held by reference                *)
(*   SpecMM          the matchmaking actor (join / leave / tryMatch) with  *)
(*                   calls interleaving at tryMatch's await                *)
(*   SpecMMSerial    the same actor, one call at a time                    *)
(*   SpecMMPolling   the same actor with clients that keep polling         *)
(*   SpecMaintenance the same actor with its cleanup alarm                 *)
(*   SpecLimiter     the same actor's rate limit, clock and alarm          *)
(*   SpecRequests    the same actor's validation of /join and /leave       *)
(*   SpecSession     one match session actor (/init, connect, MAKE_MOVE,   *)
(*                   close, alarm, restart)                                *)
(*   SpecMoves       the session while a match is played                   *)
(*   SpecTeardown    the session's connections, alarm and hibernation      *)
(*   SpecNotation    the client's chess notation of a move                 *)
(*   SpecStore       the client's game store and its nickname              *)
(*   SpecSocket      the client's GameWebSocket and its reconnecting       *)
(***************************************************************************)
EXTENDS Integers, Sequences, FiniteSets, TLC

VARIABLES
    game,        \* engine: the GameState the caller holds
    lastMove,    \* engine: the last move applyMove accepted (history)
    freeLeft,    \* engine: how many freely chosen moves the caller has left
    winBoard,    \* winner check: the 3x3 board under test
    winResult,   \* winner check: what the two check functions returned
    queue,           \* matchmaking: this.queue
    matchedPlayers,  \* matchmaking: this.matchedPlayers
    inFlight,        \* matchmaking: tryMatch calls suspended in createGameSession
    nextGameId,      \* matchmaking: the next fresh game id (crypto.randomUUID)
    sessionInits,    \* matchmaking: how the /init of each game id ended (history)
    delivered,       \* matchmaking: matched:true responses per player and game (history)
    mmLast,          \* matchmaking: the response of the last completed call
    cleanupAlarm,    \* matchmaking: this.cleanupAlarmId, the storage alarm, how the last pass ended
    limiter,         \* matchmaking: this.rateLimitMap for one source IP, this.lastActivity, Date.now()
    this,                   \* session: the fields of the GameSession object
    storage,                \* session: this.ctx.storage (moves, allowedPlayers, gameId, alarm)
    now,                    \* session: Date.now()
    sockets,                \* session: the server sockets that are open, and whose they are
    newGameStatus,          \* session: the status createNewGame(gameId) gives a new game
    outbox,                 \* session: what the last handler sent, in order
    sessLast,               \* session: the last handler that ran and how it ended
    budget,                 \* session: how many more ticks and messages a run has
    heap,        \* applyMove on objects: the objects, by reference
    held,        \* applyMove on objects: the reference to the GameState the caller holds
    applyCall,   \* applyMove on objects: the last call, its input as it was and its result
    note,        \* client: the last call of the notation functions and its result
    store,       \* client: the game store (playerNickname, error) and the module it is built from
    gws          \* client: the fields of a GameWebSocket, its sockets and its pending timeouts

engineVars == <<game, lastMove, freeLeft>>
winVars == <<winBoard, winResult>>
mmVars == <<queue, matchedPlayers, inFlight, nextGameId, sessionInits, delivered, mmLast,
           cleanupAlarm, limiter>>
sessVars == <<this, storage, now, sockets, newGameStatus, outbox, sessLast, budget>>
applyVars == <<heap, held, applyCall>>
clientVars == <<note, store, gws>>
vars == <<engineVars, winVars, mmVars, sessVars, applyVars, clientVars>>

(***************************************************************************)
(* Types and constants of the game (types/game.ts)                         *)
(***************************************************************************)
X == "X"
O == "O"
Null == "null"
PlayerSymbol == {X, O}
Cell == {X, O, Null}

\* activeBoard: null ("any board") is written NoBoard; a board index is 0..8
NoBoard == -1

BOARD_SIZE == 3
TOTAL_CELLS == BOARD_SIZE * BOARD_SIZE
Idx == 0 .. (TOTAL_CELLS - 1)

WINNING_COMBINATIONS ==
    << <<0, 1, 2>>, <<3, 4, 5>>, <<6, 7, 8>>,
       <<0, 3, 6>>, <<1, 4, 7>>, <<2, 5, 8>>,
       <<0, 4, 8>>, <<2, 4, 6>> >>

(***************************************************************************)
(* Win detection (lib/winDetection.ts)                                     *)
(***************************************************************************)
\* mutant: the test compares only the first two cells of the combination
ComboWins_TwoCells(board, combo) ==
    /\ board[combo[1]] # Null
    /\ board[combo[1]] = board[combo[2]]

\* the loop body's test for one combination [a, b, c]
ComboWins(board, combo) ==
    /\ board[combo[1]] # Null
    /\ board[combo[1]] = board[combo[2]]
    /\ board[combo[1]] = board[combo[3]]

RECURSIVE WinnerFrom(_, _)
\* for (const combo of WINNING_COMBINATIONS) ... return board[a]; return null
WinnerFrom(board, i) ==
    IF i > Len(WINNING_COMBINATIONS) THEN Null
    ELSE IF ComboWins(board, WINNING_COMBINATIONS[i])
         THEN board[WINNING_COMBINATIONS[i][1]]
         ELSE WinnerFrom(board, i + 1)

\* mutant: no sub-board is ever won
checkSubBoardWinner_Never(subBoard) == Null

checkSubBoardWinner(subBoard) == WinnerFrom(subBoard, 1)

checkMainBoardWinner(mainBoard) == WinnerFrom(mainBoard, 1)

isSubBoardFull(subBoard) == \A i \in Idx : subBoard[i] # Null

isGameDraw(mainBoard) ==
    LET allPositionsFilled == \A i \in Idx : mainBoard[i] # Null
        hasWinner == checkMainBoardWinner(mainBoard) # Null
    IN  allPositionsFilled /\ ~hasWinner

isSubBoardCompleted(subBoard) ==
    checkSubBoardWinner(subBoard) # Null \/ isSubBoardFull(subBoard)

\* the empty cells of one sub-board, in index order (the inner forEach)
RECURSIVE emptyCellsFrom(_, _, _)
emptyCellsFrom(subBoards, boardIndex, cellIndex) ==
    IF cellIndex >= TOTAL_CELLS THEN << >>
    ELSE (IF subBoards[boardIndex][cellIndex] = Null
          THEN << [boardIndex |-> boardIndex, cellIndex |-> cellIndex] >>
          ELSE << >>)
         \o emptyCellsFrom(subBoards, boardIndex, cellIndex + 1)

movesInBoard(subBoards, boardIndex) ==
    IF isSubBoardCompleted(subBoards[boardIndex]) THEN << >>
    ELSE emptyCellsFrom(subBoards, boardIndex, 0)

\* the outer forEach over the sub-boards
RECURSIVE movesFromBoard(_, _)
movesFromBoard(subBoards, boardIndex) ==
    IF boardIndex >= TOTAL_CELLS THEN << >>
    ELSE movesInBoard(subBoards, boardIndex) \o movesFromBoard(subBoards, boardIndex + 1)

getValidMoves(subBoards, activeBoard) ==
    IF activeBoard # NoBoard
    THEN movesInBoard(subBoards, activeBoard)
    ELSE movesFromBoard(subBoards, 0)

(***************************************************************************)
(* Game engine (lib/gameEngine.ts)                                         *)
(***************************************************************************)
emptySubBoard == [i \in Idx |-> Null]

createNewGame ==
    [ board |-> [ main |-> [i \in Idx |-> Null],
                  sub |-> [b \in Idx |-> emptySubBoard],
                  activeBoard |-> NoBoard ],
      currentPlayer |-> X,
      status |-> "playing",
      winner |-> Null ]

createMove(boardIndex, cellIndex, player) ==
    [boardIndex |-> boardIndex, cellIndex |-> cellIndex, player |-> player]

\* mutant: the "target sub-board must not be completed" test is missing
isValidMove_SkipsCompleted(gameState, move) ==
    IF gameState.status # "playing" THEN FALSE
    ELSE IF move.player # gameState.currentPlayer THEN FALSE
    ELSE IF \/ move.boardIndex < 0 \/ move.boardIndex >= TOTAL_CELLS
            \/ move.cellIndex < 0 \/ move.cellIndex >= TOTAL_CELLS THEN FALSE
    ELSE IF gameState.board.sub[move.boardIndex][move.cellIndex] # Null THEN FALSE
    ELSE IF /\ gameState.board.activeBoard # NoBoard
            /\ move.boardIndex # gameState.board.activeBoard THEN FALSE
    ELSE TRUE

isValidMove(gameState, move) ==
    IF gameState.status # "playing" THEN FALSE
    ELSE IF move.player # gameState.currentPlayer THEN FALSE
    ELSE IF \/ move.boardIndex < 0 \/ move.boardIndex >= TOTAL_CELLS
            \/ move.cellIndex < 0 \/ move.cellIndex >= TOTAL_CELLS THEN FALSE
    ELSE IF gameState.board.sub[move.boardIndex][move.cellIndex] # Null THEN FALSE
    ELSE IF isSubBoardCompleted(gameState.board.sub[move.boardIndex]) THEN FALSE
    ELSE IF /\ gameState.board.activeBoard # NoBoard
            /\ move.boardIndex # gameState.board.activeBoard THEN FALSE
    ELSE TRUE

\* mutant: the next board is the cell just played, completed or not
calculateNextActiveBoard_NoCheck(cellIndex, subBoards) == cellIndex

calculateNextActiveBoard(cellIndex, subBoards) ==
    IF isSubBoardCompleted(subBoards[cellIndex]) THEN NoBoard ELSE cellIndex

\* mutant: the player is switched after a game-ending move too
nextPlayer_AlwaysSwitch(status, player, currentPlayer) ==
    IF player = X THEN O ELSE X

\* "Switch to next player if game is still ongoing"
nextPlayer(status, player, currentPlayer) ==
    IF status = "playing" THEN (IF player = X THEN O ELSE X) ELSE currentPlayer

\* the state applyMove builds for a move that passed isValidMove
appliedState(gameState, move) ==
    LET sub1 == [gameState.board.sub EXCEPT ![move.boardIndex][move.cellIndex] = move.player]
        subBoardWinner == checkSubBoardWinner(sub1[move.boardIndex])
        main1 == IF subBoardWinner # Null
                 THEN [gameState.board.main EXCEPT ![move.boardIndex] = subBoardWinner]
                 ELSE gameState.board.main
        active1 == calculateNextActiveBoard(move.cellIndex, sub1)
        mainBoardWinner == checkMainBoardWinner(main1)
        winner1 == IF mainBoardWinner # Null THEN mainBoardWinner
                   ELSE IF isGameDraw(main1) THEN "draw"
                   ELSE gameState.winner
        status1 == IF mainBoardWinner # Null \/ isGameDraw(main1)
                   THEN "finished" ELSE gameState.status
        player1 == nextPlayer(status1, move.player, gameState.currentPlayer)
    IN  [ board |-> [main |-> main1, sub |-> sub1, activeBoard |-> active1],
          currentPlayer |-> player1,
          status |-> status1,
          winner |-> winner1 ]

applyMove(gameState, move) ==
    IF ~isValidMove(gameState, move)
    THEN [valid |-> FALSE, error |-> "Invalid move"]
    ELSE [valid |-> TRUE, newGameState |-> appliedState(gameState, move)]

getValidMovesForGame(gameState) ==
    IF gameState.status # "playing" THEN << >>
    ELSE getValidMoves(gameState.board.sub, gameState.board.activeBoard)

(***************************************************************************)
(* applyMove on objects.  A GameState is an object that refers to its      *)
(* board object, which refers to the main array and to the array of the    *)
(* nine sub-board arrays.  heap maps a reference to the object it names;   *)
(* what applyMove assigns, it assigns to the object a reference names.     *)
(***************************************************************************)
\* no object
NoRef == -1

\* the objects of one GameState built at reference a: the state, its board,
\* the main array, the array of sub-boards and the nine sub-boards
objectsOf(a, gs) ==
    [ r \in a .. (a + 3 + TOTAL_CELLS) |->
        IF r = a THEN [ board |-> a + 1, currentPlayer |-> gs.currentPlayer,
                        status |-> gs.status, winner |-> gs.winner ]
        ELSE IF r = a + 1 THEN [ main |-> a + 2, sub |-> a + 3,
                                 activeBoard |-> gs.board.activeBoard ]
        ELSE IF r = a + 2 THEN gs.board.main
        ELSE IF r = a + 3 THEN [b \in Idx |-> a + 4 + b]
        ELSE gs.board.sub[r - (a + 4)] ]

\* the GameState value a reference leads to
deref(h, g) ==
    LET board == h[h[g].board]
    IN  [ board |-> [ main |-> h[board.main],
                      sub |-> [b \in Idx |-> h[h[board.sub][b]]],
                      activeBoard |-> board.activeBoard ],
          currentPlayer |-> h[g].currentPlayer,
          status |-> h[g].status,
          winner |-> h[g].winner ]

\* mutant: the copy is a new state object that shares the board of the old
copyState_Shallow(h, g, fresh) == (fresh :> h[g]) @@ h

\* JSON.parse(JSON.stringify(gameState)): the text spells out every value
\* the state leads to (null, strings and numbers come back as they were)
\* and parsing it builds new objects
copyState(h, g, fresh) == objectsOf(fresh, deref(h, g)) @@ h

\* newGameState.board.sub[boardIndex][cellIndex] = player
setCell(h, g, boardIndex, cellIndex, player) ==
    LET subBoard == h[h[h[g].board].sub][boardIndex]
    IN  [h EXCEPT ![subBoard][cellIndex] = player]

\* newGameState.board.main[boardIndex] = subBoardWinner
setMain(h, g, boardIndex, subBoardWinner) ==
    LET main == h[h[g].board].main
    IN  [h EXCEPT ![main][boardIndex] = subBoardWinner]

\* newGameState.board.activeBoard = ...
setActiveBoard(h, g, activeBoard) ==
    LET board == h[g].board
    IN  [h EXCEPT ![board].activeBoard = activeBoard]

\* applyMove(gameState, move) for the state at reference g; a new state is
\* built at reference fresh.  The answer and the objects afterwards.
applyMoveObjects(h, g, move, fresh) ==
    LET h1 == copyState(h, g, fresh)
        h2 == setCell(h1, fresh, move.boardIndex, move.cellIndex, move.player)
        subBoardWinner == checkSubBoardWinner(deref(h2, fresh).board.sub[move.boardIndex])
        h3 == IF subBoardWinner # Null
              THEN setMain(h2, fresh, move.boardIndex, subBoardWinner) ELSE h2
        h4 == setActiveBoard(h3, fresh,
                  calculateNextActiveBoard(move.cellIndex, deref(h3, fresh).board.sub))
        mainBoardWinner == checkMainBoardWinner(deref(h4, fresh).board.main)
        h5 == IF mainBoardWinner # Null
              THEN [h4 EXCEPT ![fresh].winner = mainBoardWinner, ![fresh].status = "finished"]
              ELSE IF isGameDraw(deref(h4, fresh).board.main)
              THEN [h4 EXCEPT ![fresh].winner = "draw", ![fresh].status = "finished"]
              ELSE h4
        h6 == IF h5[fresh].status = "playing"
              THEN [h5 EXCEPT ![fresh].currentPlayer = IF move.player = X THEN O ELSE X]
              ELSE h5
    IN  IF ~isValidMove(deref(h, g), move)
        THEN [ heap |-> h, valid |-> FALSE, error |-> "Invalid move", newGameState |-> NoRef ]
        ELSE [ heap |-> h6, valid |-> TRUE, error |-> "", newGameState |-> fresh ]

(***************************************************************************)
(* The parts of the state a specification does not use stay as they are    *)
(* here.                                                                   *)
(***************************************************************************)
\* lastMove before any move
NoMove == [boardIndex |-> NoBoard, cellIndex |-> NoBoard, player |-> Null]

\* winResult before the checks ran
WinIdle == [done |-> FALSE, sub |-> Null, main |-> Null]

EngineIdle == game = createNewGame /\ lastMove = NoMove /\ freeLeft = 0
WinnerIdle == winBoard = emptySubBoard /\ winResult = WinIdle

\* applyCall before any call
NoCall ==
    [ input |-> NoRef, before |-> createNewGame, move |-> NoMove, valid |-> FALSE,
      error |-> "", newGameState |-> NoRef ]

ApplyIdle == heap = << >> /\ held = NoRef /\ applyCall = NoCall

\* string | null that is null
NoString == "<null>"

\* the notation functions were not called yet
\* chessNotationToMove returned null
NoDecoded == [boardIndex |-> NoBoard, cellIndex |-> NoBoard]

NoNote == [call |-> "none", boardIndex |-> NoBoard, cellIndex |-> NoBoard,
           notation |-> NoString, decoded |-> NoDecoded, nickname |-> << >>]

\* the store as created: playerNickname "Anonymous", error null
NewStore(module) ==
    [ module |-> module,
      playerNickname |-> <<"A", "n", "o", "n", "y", "m", "o", "u", "s">>,
      error |-> NoString ]

\* how many sockets a GameWebSocket creates in a run
MaxClientSockets == 3

\* a GameWebSocket as constructed; sockets: the readyState of each WebSocket
\* created, timers: the setTimeout callbacks that have not run yet, and as
\* history whether disconnect() was called after the last call of connect()
\* by the user
NewGameWebSocket ==
    [ ws |-> 0, status |-> "disconnected", reconnectAttempts |-> 0,
      reconnectDelay |-> 1000,
      sockets |-> [k \in 1 .. MaxClientSockets |-> "none"],
      timers |-> 0, userDisconnected |-> FALSE ]

ClientIdle ==
    /\ note = NoNote
    /\ store = NewStore("store/gameStore.ts")
    /\ gws = NewGameWebSocket

\* this.gameState = null
NoGame == [status |-> "null"]

\* this.cleanupAlarmId = null; no alarm set in storage
NoAlarm == -1

\* a sequenceNumber that is undefined
NoSeq == -1

\* storage with nothing put and no alarm set
EmptyStorage ==
    [moves |-> << >>, allowedPlayers |-> << >>, gameId |-> 0, alarm |-> NoAlarm]

\* sessLast before any handler ran
NoEvent ==
    [ handler |-> "none", playerId |-> "", status |-> 0, threw |-> FALSE,
      hadGameState |-> FALSE, admitted |-> << >> ]

NoBudget == [ticks |-> 0, messages |-> 0]

\* the field initializers of GameSession (gameId '' is written 0)
FieldInitializers ==
    [ gameState |-> NoGame,
      players |-> << >>,
      gameId |-> 0,
      moveRateLimit |-> << >>,
      cleanupAlarmId |-> NoAlarm,
      moves |-> << >>,
      playerSequenceNumbers |-> << >>,
      allowedPlayers |-> << >> ]

SessIdle ==
    /\ this = FieldInitializers
    /\ storage = EmptyStorage
    /\ now = 0
    /\ sockets = << >>
    /\ newGameStatus = "waiting"
    /\ outbox = << >>
    /\ sessLast = NoEvent
    /\ budget = NoBudget

(***************************************************************************)
(* Session actor, /init (durable-objects/GameSession.ts)                   *)
(***************************************************************************)
\* a player entry of an /init body passes the handler's per-player test
validPlayerData(p) == p.symbol \in PlayerSymbol

\* what the /init handler answers for a body of two players; putFails says
\* which of its two storage puts throws (0: none).  An exception is caught
\* and answered with 400 'Invalid request'.
initResponse(body, putFails) ==
    IF Len(body.players) # 2 THEN "failed"
    ELSE IF \E i \in 1 .. 2 : ~validPlayerData(body.players[i]) THEN "failed"
    ELSE IF putFails # 0 THEN "failed"
    ELSE "ok"

(***************************************************************************)
(* Matchmaking actor (durable-objects/MatchmakingQueue.ts)                 *)
(***************************************************************************)
\* the playerIds that call the actor
PlayerIds == {"p1", "p2", "p3"}

\* how many pairings (fresh game ids) a run makes
MaxGames == 2
GameIds == 1 .. MaxGames

\* crypto.randomUUID() for a player's connect token: fresh per game and player
Token(gameId, slot) == <<gameId, slot>>

\* the largest member of a non-empty set of numbers
Latest(times) == CHOOSE t \in times : \A u \in times : u <= t

\* Date.now() as joinedAt and matchedAt: only the order of the times held
\* matters to the actor, so a time is its rank among those still held
joinedAts ==
    { queue[i].joinedAt : i \in 1 .. Len(queue) }
        \cup { call.player1.joinedAt : call \in inFlight }
        \cup { call.player2.joinedAt : call \in inFlight }

matchedAts == { matchedPlayers[p].matchedAt : p \in DOMAIN matchedPlayers }

DateNow(times) == IF times = {} THEN 1 ELSE Latest(times) + 1

QueueEntry(playerId) == [playerId |-> playerId, joinedAt |-> DateNow(joinedAts)]

NoResponse ==
    [ call |-> "none", playerId |-> "", status |-> 0, matched |-> FALSE,
      gameId |-> 0, yourSymbol |-> Null, connectToken |-> Token(0, 0),
      position |-> 0, success |-> FALSE, pair |-> << >>, behind |-> << >> ]

\* scheduleCleanupAlarm's effect (the constructor calls it): an id is
\* remembered and the storage alarm is set
Scheduled == [cleanupAlarmId |-> TRUE, alarm |-> TRUE, failedAt |-> "none", quiet |-> FALSE]

(***************************************************************************)
(* The rate limit of fetch, for the requests of one source IP.  Where the  *)
(* limiter is not tracked the requests come from sources that stay within  *)
(* their quota, and time is the input of the maintenance pass.             *)
(***************************************************************************)
maxRequests == 30
windowMs == 60000
hibernationTimeout == 30 * 60 * 1000
rateLimitTimeout == 60 * 1000

\* how many times the clock is moved on
MaxClockTicks == 2

\* count = 0: rateLimitMap has no entry for the IP.  window is history: the
\* window opened by the last request that came after the reset time of the
\* window before, and how many requests were admitted in it
Untracked ==
    [ tracked |-> FALSE, now |-> 0, ticks |-> 0, lastActivity |-> 0, alarmAt |-> 300000,
      count |-> 0, resetTime |-> 0,
      window |-> [resetTime |-> -1, admitted |-> 0] ]

Tracked == [Untracked EXCEPT !.tracked = TRUE, !.ticks = MaxClockTicks]

\* mutant: the count is not compared with the quota
checkRateLimit_NoQuota(l) ==
    IF l.count = 0 \/ l.now > l.resetTime
    THEN [ok |-> TRUE, after |-> [l EXCEPT !.count = 1, !.resetTime = l.now + windowMs]]
    ELSE [ok |-> TRUE, after |-> [l EXCEPT !.count = @ + 1]]

\* checkRateLimit(ip): the answer and the map it leaves
checkRateLimit(l) ==
    IF l.count = 0 \/ l.now > l.resetTime
    THEN [ok |-> TRUE, after |-> [l EXCEPT !.count = 1, !.resetTime = l.now + windowMs]]
    ELSE IF l.count >= maxRequests THEN [ok |-> FALSE, after |-> l]
    ELSE [ok |-> TRUE, after |-> [l EXCEPT !.count = @ + 1]]

\* the history of an admitted request
CountedIn(l) ==
    IF l.now > l.window.resetTime
    THEN [l EXCEPT !.window = [resetTime |-> l.now + windowMs, admitted |-> 1]]
    ELSE [l EXCEPT !.window.admitted = @ + 1]

updateActivity(l) == [l EXCEPT !.lastActivity = l.now]

\* fetch lets the request through to handleJoinQueue, handleLeaveQueue or
\* handleGetStatus, which calls updateActivity first
Serves ==
    /\ limiter.tracked => checkRateLimit(limiter).ok /\ limiter.window.admitted <= maxRequests
    /\ limiter' = IF limiter.tracked
                  THEN updateActivity(CountedIn(checkRateLimit(limiter).after))
                  ELSE limiter

\* the fields of the actor after its construction
QueueIdle ==
    /\ queue = << >>
    /\ matchedPlayers = << >>
    /\ inFlight = {}
    /\ nextGameId = 1
    /\ sessionInits = [g \in GameIds |-> "none"]
    /\ delivered = [p \in PlayerIds |-> [g \in GameIds |-> 0]]
    /\ mmLast = NoResponse
    /\ cleanupAlarm = Scheduled

MMIdle ==
    /\ limiter = Untracked
    /\ QueueIdle

\* mutant: the entry is never found
findIndex_NeverFinds(q, playerId) == 0

\* this.queue.findIndex((entry) => entry.playerId === playerId), 1-based; 0 for -1
findIndex(q, playerId) ==
    IF \E i \in 1 .. Len(q) : q[i].playerId = playerId
    THEN CHOOSE i \in 1 .. Len(q) :
             /\ q[i].playerId = playerId
             /\ \A j \in 1 .. (i - 1) : q[j].playerId # playerId
    ELSE 0

\* the response {matched: true, gameId, yourSymbol, connectToken}
MatchedResponse(playerId, gameId, symbol, token) ==
    [NoResponse EXCEPT !.call = "join", !.playerId = playerId, !.status = 200,
                       !.matched = TRUE, !.gameId = gameId, !.yourSymbol = symbol,
                       !.connectToken = token]

\* the response {matched: false, position, ...}
QueuedResponse(playerId, position) ==
    [NoResponse EXCEPT !.call = "join", !.playerId = playerId, !.status = 200,
                       !.position = position]

countDelivered(resp) ==
    IF resp.matched
    THEN [delivered EXCEPT ![resp.playerId][resp.gameId] = @ + 1]
    ELSE delivered

\* handleJoinQueue, "Check if player has already been matched"
JoinClaimsMatch(playerId) ==
    /\ playerId \in DOMAIN matchedPlayers
    /\ LET matchInfo == matchedPlayers[playerId]
           resp == MatchedResponse(playerId, matchInfo.gameId, matchInfo.symbol, matchInfo.token)
       IN  /\ matchedPlayers' = [p \in DOMAIN matchedPlayers \ {playerId} |-> matchedPlayers[p]]
           /\ mmLast' = resp
           /\ delivered' = countDelivered(resp)
    /\ UNCHANGED <<queue, inFlight, nextGameId, sessionInits>>
    /\ UNCHANGED <<engineVars, winVars, sessVars, applyVars, clientVars, cleanupAlarm>>
    /\ Serves

\* handleJoinQueue, "Check if player is already in queue"
JoinAlreadyQueued(playerId) ==
    /\ playerId \notin DOMAIN matchedPlayers
    /\ findIndex(queue, playerId) # 0
    /\ mmLast' = QueuedResponse(playerId, findIndex(queue, playerId))
    /\ UNCHANGED <<queue, matchedPlayers, inFlight, nextGameId, sessionInits, delivered>>
    /\ UNCHANGED <<engineVars, winVars, sessVars, applyVars, clientVars, cleanupAlarm>>
    /\ Serves

\* handleJoinQueue, "Add player to queue", and tryMatch with fewer than 2 queued
JoinEnqueues(playerId) ==
    /\ playerId \notin DOMAIN matchedPlayers
    /\ findIndex(queue, playerId) = 0
    /\ Len(queue) + 1 < 2
    /\ queue' = Append(queue, QueueEntry(playerId))
    /\ mmLast' = QueuedResponse(playerId, findIndex(queue', playerId))
    /\ UNCHANGED <<matchedPlayers, inFlight, nextGameId, sessionInits, delivered>>
    /\ UNCHANGED <<engineVars, winVars, sessVars, applyVars, clientVars, cleanupAlarm>>
    /\ Serves

\* handleJoinQueue, "Add player to queue", and tryMatch up to its
\* await this.createGameSession(...): the two oldest entries are shifted out
JoinStartsMatch(playerId) ==
    /\ playerId \notin DOMAIN matchedPlayers
    /\ findIndex(queue, playerId) = 0
    /\ Len(queue) + 1 >= 2
    /\ nextGameId <= MaxGames
    /\ LET pushed == Append(queue, QueueEntry(playerId))
           player1 == pushed[1]
           player2 == pushed[2]
       IN  /\ queue' = SubSeq(pushed, 3, Len(pushed))
           /\ inFlight' = inFlight \cup
                  { [ requestingPlayerId |-> playerId,
                      player1 |-> player1, player2 |-> player2,
                      gameId |-> nextGameId,
                      tokenPlayer1 |-> Token(nextGameId, 1),
                      tokenPlayer2 |-> Token(nextGameId, 2) ] }
    /\ nextGameId' = nextGameId + 1
    /\ UNCHANGED <<matchedPlayers, sessionInits, delivered, mmLast>>
    /\ UNCHANGED <<engineVars, winVars, sessVars, applyVars, clientVars, cleanupAlarm>>
    /\ Serves

\* mutant: the two tokens posted the other way round
InitBody_TokensSwapped(call) ==
    [ gameId |-> call.gameId,
      players |-> << [id |-> call.player1.playerId, symbol |-> X, token |-> call.tokenPlayer2],
                     [id |-> call.player2.playerId, symbol |-> O, token |-> call.tokenPlayer1] >> ]

\* the body createGameSession posts to the session's /init
InitBody(call) ==
    [ gameId |-> call.gameId,
      players |-> << [id |-> call.player1.playerId, symbol |-> X, token |-> call.tokenPlayer1],
                     [id |-> call.player2.playerId, symbol |-> O, token |-> call.tokenPlayer2] >> ]

\* tryMatch after createGameSession returned normally (whatever the session
\* answered): "Store match info for both players", "Return match info for
\* the requesting player"
MatchStored(call, initStatus) ==
    LET requestingPlayerSymbol ==
            IF call.requestingPlayerId = call.player1.playerId THEN X ELSE O
        connectToken ==
            IF call.requestingPlayerId = call.player1.playerId
            THEN call.tokenPlayer1 ELSE call.tokenPlayer2
        resp == MatchedResponse(call.requestingPlayerId, call.gameId,
                                requestingPlayerSymbol, connectToken)
        matchedAt == DateNow(matchedAts)
    IN  /\ matchedPlayers' =
               (call.player2.playerId :>
                    [gameId |-> call.gameId, symbol |-> O, token |-> call.tokenPlayer2,
                     matchedAt |-> matchedAt])
               @@ (call.player1.playerId :>
                    [gameId |-> call.gameId, symbol |-> X, token |-> call.tokenPlayer1,
                     matchedAt |-> matchedAt])
               @@ matchedPlayers
        /\ mmLast' = resp
        /\ delivered' = countDelivered(resp)
        /\ sessionInits' = [sessionInits EXCEPT ![call.gameId] = initStatus]
        /\ UNCHANGED queue

\* tryMatch's catch: this.queue.unshift(player2, player1); throw error, and
\* handleJoinQueue's catch answering 400
MatchRolledBack(call) ==
    /\ queue' = <<call.player2, call.player1>> \o queue
    /\ mmLast' = [NoResponse EXCEPT !.call = "join",
                                    !.playerId = call.requestingPlayerId,
                                    !.status = 400,
                                    !.pair = <<call.player1, call.player2>>,
                                    !.behind = queue]
    /\ sessionInits' = [sessionInits EXCEPT ![call.gameId] = "threw"]
    /\ UNCHANGED <<matchedPlayers, delivered>>

\* the await in createGameSession ends: the stub's fetch either resolves with
\* the session's response or rejects
InitResolves ==
    \E call \in inFlight, putFails \in 0 .. 2 :
        /\ inFlight' = inFlight \ {call}
        /\ MatchStored(call, initResponse(InitBody(call), putFails))
        /\ UNCHANGED <<nextGameId, engineVars, winVars, sessVars, applyVars, clientVars, cleanupAlarm, limiter>>

InitRejects ==
    \E call \in inFlight :
        /\ inFlight' = inFlight \ {call}
        /\ MatchRolledBack(call)
        /\ UNCHANGED <<nextGameId, engineVars, winVars, sessVars, applyVars, clientVars, cleanupAlarm, limiter>>

\* handleLeaveQueue
LeaveQueue(playerId) ==
    /\ queue' = SelectSeq(queue, LAMBDA entry : entry.playerId # playerId)
    /\ mmLast' = [NoResponse EXCEPT !.call = "leave", !.playerId = playerId,
                                    !.status = 200,
                                    !.success = (Len(queue') < Len(queue))]
    /\ UNCHANGED <<matchedPlayers, inFlight, nextGameId, sessionInits, delivered>>
    /\ UNCHANGED <<engineVars, winVars, sessVars, applyVars, clientVars, cleanupAlarm>>
    /\ Serves

\* alarm and cleanupStaleEntries: the queue entries that joined more than
\* maxWaitTime ago and the match records stored more than
\* matchedPlayerTimeout ago are dropped; how much time has passed is the
\* input, given as the latest joinedAt and the latest matchedAt that count
\* as stale (0: none does).  prepareForHibernation clears a queue and a
\* record map that shouldHibernate found empty.
Maintenance(staleJoinedAt, staleMatchedAt) ==
    /\ queue' = SelectSeq(queue, LAMBDA entry : entry.joinedAt > staleJoinedAt)
    /\ matchedPlayers' =
           [ p \in { q \in DOMAIN matchedPlayers :
                         matchedPlayers[q].matchedAt > staleMatchedAt }
               |-> matchedPlayers[p] ]
    /\ mmLast' = [NoResponse EXCEPT !.call = "alarm"]
    /\ UNCHANGED <<inFlight, nextGameId, sessionInits, delivered>>
    /\ UNCHANGED <<engineVars, winVars, sessVars, applyVars, clientVars, cleanupAlarm, limiter>>

\* where a maintenance pass can throw: in the pruning (lines 395-420), in
\* shouldHibernate (426) or in ctx.storage.setAlarm (477)
FailurePoints == {"none", "pruning", "shouldHibernate", "setAlarm"}

\* this.cleanupAlarmId and the storage alarm after alarm() has run: alarm()
\* clears the id and the alarm that fired is spent; only the else branch
\* of cleanupStaleEntries schedules again, and scheduleCleanupAlarm sets the
\* id before it calls setAlarm
AfterPass(failedAt, hibernates) ==
    [ cleanupAlarmId |-> failedAt = "setAlarm" \/ (failedAt = "none" /\ ~hibernates),
      alarm |-> failedAt = "none" /\ ~hibernates,
      failedAt |-> failedAt,
      quiet |-> FALSE ]

\* mutant: an empty queue is enough to hibernate
shouldHibernate_QueueOnly(q, matched, inactive) == q = << >>

\* shouldHibernate; inactive: now - this.lastActivity > hibernationTimeout
shouldHibernate(q, matched, inactive) ==
    q = << >> /\ DOMAIN matched = {} /\ inactive

\* the queue filter and the matched-players loop of cleanupStaleEntries
PrunedQueue(q, staleJoinedAt) ==
    SelectSeq(q, LAMBDA entry : entry.joinedAt > staleJoinedAt)

PrunedMatched(matched, staleMatchedAt) ==
    [ p \in { q \in DOMAIN matched : matched[q].matchedAt > staleMatchedAt }
        |-> matched[p] ]

\* alarm() -> cleanupStaleEntries, with the catch blocks of both and of
\* scheduleCleanupAlarm; inactive: now - this.lastActivity > 30 minutes
QueueAlarm(staleJoinedAt, staleMatchedAt, inactive, failedAt) ==
    LET kept == PrunedQueue(queue, staleJoinedAt)
        keptMatched == PrunedMatched(matchedPlayers, staleMatchedAt)
        hibernates == shouldHibernate(kept, keptMatched, inactive)
        cleared == failedAt = "none" /\ hibernates
    IN  /\ cleanupAlarm.alarm
        /\ limiter.tracked =>
               /\ limiter.now >= limiter.alarmAt
               /\ inactive <=> (limiter.now - limiter.lastActivity > hibernationTimeout)
        /\ limiter' =
               IF ~limiter.tracked \/ failedAt = "pruning" THEN limiter
               ELSE LET stale == limiter.now > limiter.resetTime + rateLimitTimeout
                        pruned == IF stale \/ cleared THEN [limiter EXCEPT !.count = 0] ELSE limiter
                    IN  IF failedAt = "none" /\ ~hibernates
                        THEN [pruned EXCEPT !.alarmAt = limiter.now + 300000]
                        ELSE pruned
        /\ failedAt = "setAlarm" => ~hibernates
        /\ queue' = IF failedAt = "pruning" THEN queue
                     ELSE IF cleared THEN << >> ELSE kept
        /\ matchedPlayers' = IF failedAt = "pruning" THEN matchedPlayers
                              ELSE IF cleared THEN << >> ELSE keptMatched
        /\ cleanupAlarm' = [AfterPass(failedAt, hibernates) EXCEPT !.quiet = inactive]
        /\ mmLast' = [NoResponse EXCEPT !.call = "alarm"]
        /\ UNCHANGED <<inFlight, nextGameId, sessionInits, delivered>>
        /\ UNCHANGED <<engineVars, winVars, sessVars, applyVars, clientVars>>

MMInit ==
    /\ MMIdle
    /\ ApplyIdle
    /\ ClientIdle
    /\ EngineIdle
    /\ WinnerIdle
    /\ SessIdle

MMNext ==
    \/ \E playerId \in PlayerIds : JoinClaimsMatch(playerId)
    \/ \E playerId \in PlayerIds : JoinAlreadyQueued(playerId)
    \/ \E playerId \in PlayerIds : JoinEnqueues(playerId)
    \/ \E playerId \in PlayerIds : JoinStartsMatch(playerId)
    \/ \E playerId \in PlayerIds : LeaveQueue(playerId)
    \/ InitResolves
    \/ InitRejects
    \/ \E staleJoinedAt \in {0} \cup joinedAts, staleMatchedAt \in {0} \cup matchedAts :
           Maintenance(staleJoinedAt, staleMatchedAt)

SpecMM == MMInit /\ [][MMNext]_vars

(***************************************************************************)
(* SpecMMSerial: the same actor with its calls processed one at a time: a  *)
(* call or an alarm starts only when no join is waiting in tryMatch.       *)
(***************************************************************************)
NoCallWaiting == inFlight = {}

MMSerialNext ==
    \/ \E playerId \in PlayerIds : NoCallWaiting /\ JoinClaimsMatch(playerId)
    \/ \E playerId \in PlayerIds : NoCallWaiting /\ JoinAlreadyQueued(playerId)
    \/ \E playerId \in PlayerIds : NoCallWaiting /\ JoinEnqueues(playerId)
    \/ \E playerId \in PlayerIds : NoCallWaiting /\ JoinStartsMatch(playerId)
    \/ \E playerId \in PlayerIds : NoCallWaiting /\ LeaveQueue(playerId)
    \/ InitResolves
    \/ InitRejects
    \/ \E staleJoinedAt \in {0} \cup joinedAts, staleMatchedAt \in {0} \cup matchedAts :
           NoCallWaiting /\ Maintenance(staleJoinedAt, staleMatchedAt)

SpecMMSerial == MMInit /\ [][MMSerialNext]_vars

(***************************************************************************)
(* SpecMaintenance: the actor with its calls processed one at a time and   *)
(* its alarm: a pass runs only when the storage alarm is set, and may      *)
(* throw at one of FailurePoints; the sessions' initialization does not    *)
(* fail.                                                                   *)
(***************************************************************************)
MaintenanceNext ==
    \/ \E playerId \in PlayerIds : NoCallWaiting /\ JoinClaimsMatch(playerId)
    \/ \E playerId \in PlayerIds : NoCallWaiting /\ JoinAlreadyQueued(playerId)
    \/ \E playerId \in PlayerIds : NoCallWaiting /\ JoinEnqueues(playerId)
    \/ \E playerId \in PlayerIds : NoCallWaiting /\ JoinStartsMatch(playerId)
    \/ \E playerId \in PlayerIds : NoCallWaiting /\ LeaveQueue(playerId)
    \/ InitResolves
    \/ \E staleJoinedAt \in {0} \cup joinedAts, staleMatchedAt \in {0} \cup matchedAts,
          inactive \in BOOLEAN, failedAt \in FailurePoints :
           NoCallWaiting /\ QueueAlarm(staleJoinedAt, staleMatchedAt, inactive, failedAt)

SpecMaintenance == MMInit /\ [][MaintenanceNext]_vars

(***************************************************************************)
(* SpecMMPolling: the actor with clients that keep polling /join and never *)
(* leave or expire.  One pairing at most is rolled back (the stub's fetch  *)
(* rejects once); every later initialization resolves.  A client whose     *)
(* playerId is in the queue polls again and again (weak fairness of its    *)
(* handleJoinQueue call), and a fetch that is awaited ends.                *)
(***************************************************************************)
NoRollbackYet == \A g \in GameIds : sessionInits[g] # "threw"

PollingNext ==
    \/ \E playerId \in PlayerIds : JoinClaimsMatch(playerId)
    \/ \E playerId \in PlayerIds : JoinAlreadyQueued(playerId)
    \/ \E playerId \in PlayerIds : JoinEnqueues(playerId)
    \/ \E playerId \in PlayerIds : JoinStartsMatch(playerId)
    \/ InitResolves
    \/ NoRollbackYet /\ InitRejects

SpecMMPolling ==
    /\ MMInit
    /\ [][PollingNext]_vars
    /\ \A playerId \in PlayerIds : WF_vars(JoinAlreadyQueued(playerId))
    /\ WF_vars(InitResolves)

(***************************************************************************)
(* Session actor (durable-objects/GameSession.ts).  One session, the one   *)
(* the router addresses with gameId SessionGameId.  A handler works on a   *)
(* context ctx = [this, storage, sockets, outbox]: the object's fields,    *)
(* its storage, the server sockets and what the handler has sent so far.   *)
(* The worker's own lib/gameEngine is the engine above; its createNewGame  *)
(* takes the gameId, and the status it gives a new game is newGameStatus.  *)
(* GameState.gameId, createdAt and lastMove are left out.                  *)
(***************************************************************************)
SessionGameId == 1

\* the status a new game can start with (GameStatus without 'finished')
NewGameStatuses == {"waiting", "playing"}

\* the status newGame(id) gives a new game
SpecNewGameStatus == "playing"

MaxTicks == 1
MaxMessages == 1
MaxSockets == 2

\* how far the clock moves between two handlers (ms): past every alarm and
\* past the stale timeout of 10 minutes
TickSteps == {600001}

\* a Map is a sequence of entries in insertion order; each entry has a key
indexOf(map, key, field) ==
    IF \E i \in 1 .. Len(map) : map[i][field] = key
    THEN CHOOSE i \in 1 .. Len(map) : map[i][field] = key
    ELSE 0

\* this.players.get(playerId): the index of the entry, 0 for undefined
playerIndex(ctx, playerId) == indexOf(ctx.this.players, playerId, "playerId")

\* websocket.send(...) succeeds on a socket that is open and throws otherwise
canSend(ctx, websocket) ==
    /\ websocket \in DOMAIN ctx.sockets
    /\ ctx.sockets[websocket].state = "open"

sendToPlayer(ctx, playerId, message) ==
    LET i == playerIndex(ctx, playerId)
    IN  IF i = 0 \/ ~ctx.this.players[i].connected THEN ctx
        ELSE IF canSend(ctx, ctx.this.players[i].websocket)
        THEN [ctx EXCEPT !.outbox = Append(@,
                 [ to |-> ctx.this.players[i].websocket, playerId |-> playerId,
                   type |-> message.type, payload |-> message.payload ])]
        ELSE [ctx EXCEPT !.this.players[i].connected = FALSE]

\* mutant: the error goes to every player
sendError_ToAll(ctx, playerId, message) ==
    LET error == [type |-> "ERROR", payload |-> [message |-> message]]
    IN  sendToPlayer(sendToPlayer(ctx, "p1", error), "p2", error)

sendError(ctx, playerId, message) ==
    sendToPlayer(ctx, playerId, [type |-> "ERROR", payload |-> [message |-> message]])

RECURSIVE broadcastFrom(_, _, _)
broadcastFrom(ctx, i, message) ==
    IF i > Len(ctx.this.players) THEN ctx
    ELSE broadcastFrom(sendToPlayer(ctx, ctx.this.players[i].playerId, message), i + 1, message)

broadcast(ctx, message) == broadcastFrom(ctx, 1, message)

RECURSIVE opponentConnectedFrom(_, _, _)
opponentConnectedFrom(ctx, i, playerId) ==
    IF i > Len(ctx.this.players) THEN FALSE
    ELSE IF ctx.this.players[i].playerId # playerId THEN ctx.this.players[i].connected
    ELSE opponentConnectedFrom(ctx, i + 1, playerId)

getOpponentConnected(ctx, playerId) == opponentConnectedFrom(ctx, 1, playerId)

getConnectedPlayerCount(ctx) ==
    Cardinality({i \in 1 .. Len(ctx.this.players) : ctx.this.players[i].connected})

sendGameStateToPlayer(ctx, playerId) ==
    LET i == playerIndex(ctx, playerId)
    IN  IF i = 0 \/ ctx.this.gameState = NoGame THEN ctx
        ELSE sendToPlayer(ctx, playerId,
                 [ type |-> "GAME_STATE",
                   payload |-> [ yourSymbol |-> ctx.this.players[i].symbol,
                                 board |-> ctx.this.gameState.board,
                                 currentPlayer |-> ctx.this.gameState.currentPlayer,
                                 status |-> ctx.this.gameState.status,
                                 opponentConnected |-> getOpponentConnected(ctx, playerId),
                                 moves |-> ctx.this.moves ] ])

RECURSIVE broadcastGameStateFrom(_, _)
broadcastGameStateFrom(ctx, i) ==
    IF i > Len(ctx.this.players) THEN ctx
    ELSE broadcastGameStateFrom(sendGameStateToPlayer(ctx, ctx.this.players[i].playerId), i + 1)

broadcastGameState(ctx) == broadcastGameStateFrom(ctx, 1)

\* mutant: no alarm is set
scheduleCleanupAlarm_Never(ctx, delayMs) == ctx

scheduleCleanupAlarm(ctx, delayMs) ==
    [ctx EXCEPT !.storage.alarm = now + delayMs,
                !.this.cleanupAlarmId = now]

cancelCleanupAlarm(ctx) ==
    IF ctx.this.cleanupAlarmId # NoAlarm
    THEN [ctx EXCEPT !.storage.alarm = NoAlarm, !.this.cleanupAlarmId = NoAlarm]
    ELSE ctx

loadMoves(ctx) == ctx.storage.moves

\* mutant: a new game is created whatever the move log holds
initializeGameSession_AlwaysNew(ctx, id) ==
    [ctx EXCEPT !.this.gameId = id,
                !.this.moves = loadMoves(ctx),
                !.this.gameState = [createNewGame EXCEPT !.status = newGameStatus]]

initializeGameSession(ctx, id) ==
    LET loaded == loadMoves(ctx)
    IN  [ctx EXCEPT !.this.gameId = id,
                    !.this.moves = loaded,
                    !.this.gameState =
                        IF Len(loaded) = 0
                        THEN [createNewGame EXCEPT !.status = newGameStatus]
                        ELSE @]

\* the context a handler starts with, and the state it leaves
Ctx == [this |-> this, storage |-> storage, sockets |-> sockets, outbox |-> << >>]

Leaves(ctx) ==
    /\ this' = ctx.this
    /\ storage' = ctx.storage
    /\ sockets' = ctx.sockets
    /\ outbox' = ctx.outbox

\* the /init bodies the session is sent: the pairing of game SessionGameId
\* as createGameSession posts it, and one that gives the pair other tokens
FirstBody ==
    [ gameId |-> SessionGameId,
      players |-> << [id |-> "p1", symbol |-> X, token |-> Token(SessionGameId, 1)],
                     [id |-> "p2", symbol |-> O, token |-> Token(SessionGameId, 2)] >> ]

OtherBody ==
    [ gameId |-> SessionGameId,
      players |-> << [id |-> "p1", symbol |-> X, token |-> Token(2, 1)],
                     [id |-> "p2", symbol |-> O, token |-> Token(2, 2)] >> ]

InitBodies == {FirstBody, OtherBody}

\* who connects and with which token: the players of the two /init bodies
\* with the tokens issued to them (the wrong token while the other body is
\* in force), and somebody else with a token of the first body
ConnectInputs ==
    { <<"p1", Token(SessionGameId, 1)>>, <<"p2", Token(SessionGameId, 2)>>,
      <<"p1", Token(2, 1)>>, <<"p2", Token(2, 2)>>,
      <<"p3", Token(SessionGameId, 1)>> }

\* "for (const p of body.players)": the entries set before the first player
\* that fails the test, all of them if none fails
RECURSIVE allowedFrom(_, _)
allowedFrom(bodyPlayers, i) ==
    IF i > Len(bodyPlayers) \/ ~validPlayerData(bodyPlayers[i]) THEN << >>
    ELSE << [ playerId |-> bodyPlayers[i].id, symbol |-> bodyPlayers[i].symbol,
              token |-> bodyPlayers[i].token ] >> \o allowedFrom(bodyPlayers, i + 1)

\* fetch, POST /init
SessionInit(body, putFails) ==
    /\ LET response == initResponse(body, putFails)
           c1 == initializeGameSession(Ctx, body.gameId)
           c2 == [c1 EXCEPT !.this.allowedPlayers = allowedFrom(body.players, 1)]
           c3 == [c2 EXCEPT !.storage.allowedPlayers = c2.this.allowedPlayers]
           c4 == [c3 EXCEPT !.storage.gameId = body.gameId]
           left == IF Len(body.players) # 2 THEN Ctx
                   ELSE IF Len(c2.this.allowedPlayers) < 2 THEN c2
                   ELSE IF putFails = 1 THEN c2
                   ELSE IF putFails = 2 THEN c3
                   ELSE c4
       IN  /\ Leaves(left)
           /\ sessLast' = [NoEvent EXCEPT !.handler = "init",
                                          !.status = IF response = "ok" THEN 200 ELSE 400,
                                          !.admitted = IF storage.gameId # 0
                                                       THEN storage.allowedPlayers
                                                       ELSE << >>]
    /\ UNCHANGED <<now, newGameStatus, budget>>
    /\ UNCHANGED <<engineVars, winVars, mmVars, applyVars, clientVars>>

\* fetch, "Handle WebSocket upgrade", for a request whose parameters pass the
\* format checks
Connect(playerId, token) ==
    /\ \E w \in 1 .. MaxSockets : w \notin DOMAIN sockets
    /\ LET server == CHOOSE w \in 1 .. MaxSockets :
                         /\ w \notin DOMAIN sockets
                         /\ \A v \in 1 .. (w - 1) : v \in DOMAIN sockets
           c1 == IF this.gameState = NoGame
                 THEN initializeGameSession(Ctx, SessionGameId) ELSE Ctx
           c2 == IF Len(c1.this.allowedPlayers) = 0
                 THEN [c1 EXCEPT !.this.allowedPlayers = c1.storage.allowedPlayers]
                 ELSE c1
           a == indexOf(c2.this.allowedPlayers, playerId, "playerId")
           authorized == a # 0 /\ c2.this.allowedPlayers[a].token = token
           existingPlayer == playerIndex(c2, playerId)
           c3 == IF existingPlayer # 0
                 THEN [c2 EXCEPT !.this.players[existingPlayer].websocket = server,
                                 !.this.players[existingPlayer].connected = TRUE,
                                 !.this.players[existingPlayer].lastPing = now]
                 ELSE [c2 EXCEPT !.this.players = Append(@,
                          [ playerId |-> playerId,
                            symbol |-> c2.this.allowedPlayers[a].symbol,
                            websocket |-> server,
                            connected |-> TRUE,
                            lastPing |-> now ])]
           c4 == cancelCleanupAlarm(c3)
           c5 == [c4 EXCEPT !.sockets = (server :> [playerId |-> playerId, state |-> "open"]) @@ @]
           c6 == sendGameStateToPlayer(c5, playerId)
           second == Len(c6.this.players) >= 2
           throws == second /\ c6.this.gameState = NoGame
           c7 == broadcastGameState([c6 EXCEPT !.this.gameState.status = "playing"])
           event == [NoEvent EXCEPT !.handler = "connect", !.playerId = playerId,
                                    !.hadGameState = (this.gameState # NoGame)]
       IN  IF ~authorized
           THEN /\ Leaves(c2)
                /\ sessLast' = [NoEvent EXCEPT !.handler = "connect", !.status = 401]
           ELSE IF throws
           THEN /\ Leaves([c6 EXCEPT !.sockets[server].state = "closing"])
                /\ sessLast' = [event EXCEPT !.status = 500, !.threw = TRUE]
           ELSE /\ Leaves(IF second THEN c7 ELSE c6)
                /\ sessLast' = [event EXCEPT !.status = 101]
    /\ UNCHANGED <<now, newGameStatus, budget>>
    /\ UNCHANGED <<engineVars, winVars, mmVars, applyVars, clientVars>>

\* lib/chessNotation.ts
BOARD_NOTATION == <<"UL", "U", "UR", "L", "M", "R", "LL", "Lo", "LR">>
CELL_NOTATION == <<"ul", "u", "ur", "l", "m", "r", "ll", "lo", "lr">>

moveToChessNotation(move) ==
    BOARD_NOTATION[move.boardIndex + 1] \o CELL_NOTATION[move.cellIndex + 1]

\* the indices a MAKE_MOVE payload carries: one on the board and one out of
\* range
MoveIndices == {0, 9}

\* the sequenceNumber a MAKE_MOVE payload carries, NoSeq for none
SeqInputs == {NoSeq, 1}

ClientMessages ==
    { [type |-> "MAKE_MOVE",
       payload |-> [boardIndex |-> b, cellIndex |-> c, sequenceNumber |-> n]] :
          b \in MoveIndices, c \in MoveIndices, n \in SeqInputs }
    \cup { [type |-> "JOIN_GAME", payload |-> [boardIndex |-> 0, cellIndex |-> 0, sequenceNumber |-> NoSeq]] }

\* checkMoveRateLimit(playerId, maxMoves = 5, windowMs = 10000): the answer
\* and the context it leaves
checkMoveRateLimit(ctx, playerId) ==
    LET limits == ctx.this.moveRateLimit
    IN  IF playerId \notin DOMAIN limits \/ now > limits[playerId].resetTime
        THEN [ ok |-> TRUE,
               ctx |-> [ctx EXCEPT !.this.moveRateLimit =
                           (playerId :> [count |-> 1, resetTime |-> now + 10000]) @@ @] ]
        ELSE IF limits[playerId].count >= 5
        THEN [ok |-> FALSE, ctx |-> ctx]
        ELSE [ ok |-> TRUE,
               ctx |-> [ctx EXCEPT !.this.moveRateLimit[playerId].count = @ + 1] ]

\* a MAKE_MOVE message without a payload object
NoPayload == [missing |-> TRUE]

\* this.moves.slice(-10)
lastTen(storedMoves) ==
    SubSeq(storedMoves, IF Len(storedMoves) > 10 THEN Len(storedMoves) - 9 ELSE 1,
           Len(storedMoves))

\* mutant: a sequence number equal to the last accepted one passes
isStaleSequence_OnlyLower(sequenceNumber, expectedSequence) ==
    sequenceNumber # NoSeq /\ sequenceNumber < expectedSequence

\* "if (sequenceNumber !== undefined) ... if (sequenceNumber <= expectedSequence)"
isStaleSequence(sequenceNumber, expectedSequence) ==
    sequenceNumber # NoSeq /\ sequenceNumber <= expectedSequence

\* mutant: move numbers are counted from 0
nextMoveNumber_FromZero(storedMoves) == Len(storedMoves)

\* moveNumber: this.moves.length + 1
nextMoveNumber(storedMoves) == Len(storedMoves) + 1

\* mutant: a move in range is written and logged without any test
handleMakeMove_Untested(ctx, playerId, payload) ==
    LET i == playerIndex(ctx, playerId)
        inRange == /\ payload # NoPayload
                   /\ payload.boardIndex \in Idx
                   /\ payload.cellIndex \in Idx
        move == createMove(payload.boardIndex, payload.cellIndex, ctx.this.players[i].symbol)
        storedMove ==
            [ notation |-> moveToChessNotation(move), player |-> move.player,
              moveNumber |-> Len(ctx.this.moves) + 1, timestamp |-> now,
              boardIndex |-> move.boardIndex, cellIndex |-> move.cellIndex ]
    IN  IF i = 0 \/ ctx.this.gameState = NoGame \/ ~inRange THEN ctx
        ELSE [ctx EXCEPT !.this.gameState = appliedState(@, move),
                         !.this.moves = Append(@, storedMove),
                         !.storage.moves = Append(ctx.this.moves, storedMove)]

handleMakeMove(ctx, playerId, payload) ==
    LET i == playerIndex(ctx, playerId)
        player == ctx.this.players[i]
        gs == ctx.this.gameState
        boardIndex == payload.boardIndex
        cellIndex == payload.cellIndex
        sequenceNumber == payload.sequenceNumber
        expectedSequence ==
            IF playerId \in DOMAIN ctx.this.playerSequenceNumbers
            THEN ctx.this.playerSequenceNumbers[playerId] ELSE 0
        recentMoves == lastTen(ctx.this.moves)
        isDuplicate ==
            \E k \in 1 .. Len(recentMoves) :
                /\ recentMoves[k].boardIndex = boardIndex
                /\ recentMoves[k].cellIndex = cellIndex
                /\ recentMoves[k].player = player.symbol
                /\ now - recentMoves[k].timestamp < 5000
        move == createMove(boardIndex, cellIndex, player.symbol)
        result == applyMove(gs, move)
        storedMove ==
            [ notation |-> moveToChessNotation(move),
              player |-> move.player,
              moveNumber |-> nextMoveNumber(ctx.this.moves),
              timestamp |-> now,
              boardIndex |-> move.boardIndex,
              cellIndex |-> move.cellIndex ]
        new == result.newGameState
        c1 == [ctx EXCEPT !.this.gameState = new,
                          !.this.moves = Append(@, storedMove),
                          !.storage.moves = Append(ctx.this.moves, storedMove)]
        c2 == IF sequenceNumber # NoSeq
              THEN [c1 EXCEPT !.this.playerSequenceNumbers =
                                  (playerId :> sequenceNumber) @@ @]
              ELSE c1
        c3 == broadcast(c2, [ type |-> "MOVE_RESULT",
                              payload |-> [ valid |-> TRUE, board |-> new.board,
                                            currentPlayer |-> new.currentPlayer,
                                            gameStatus |-> new.status,
                                            move |-> storedMove ] ])
        c4 == broadcast(c3, [ type |-> "GAME_OVER",
                              payload |-> [ winner |-> new.winner,
                                            reason |-> IF new.winner = "draw" THEN "draw" ELSE "win",
                                            finalBoard |-> new.board ] ])
    IN  IF i = 0 \/ gs = NoGame THEN sendError(ctx, playerId, "Invalid request")
        ELSE IF payload = NoPayload THEN sendError(ctx, playerId, "Invalid move data")
        ELSE IF isStaleSequence(sequenceNumber, expectedSequence)
        THEN sendError(ctx, playerId, "Duplicate or out-of-order move")
        ELSE IF isDuplicate THEN sendError(ctx, playerId, "Duplicate move detected")
        ELSE IF \/ boardIndex < 0 \/ boardIndex > 8
                \/ cellIndex < 0 \/ cellIndex > 8
        THEN sendError(ctx, playerId, "Invalid move position")
        ELSE IF gs.currentPlayer # player.symbol THEN sendError(ctx, playerId, "Invalid request")
        ELSE IF gs.status # "playing" THEN sendError(ctx, playerId, "Game not active")
        ELSE IF ~result.valid
        THEN sendToPlayer(ctx, playerId,
                 [ type |-> "MOVE_RESULT",
                   payload |-> [ valid |-> FALSE, board |-> gs.board,
                                 currentPlayer |-> gs.currentPlayer,
                                 gameStatus |-> gs.status, error |-> "Invalid move" ] ])
        ELSE IF new.status = "finished" THEN scheduleCleanupAlarm(c4, 30000)
        ELSE c3

handleWebSocketMessage(ctx, playerId, clientMessage) ==
    LET limited == checkMoveRateLimit(ctx, playerId)
    IN  IF playerIndex(ctx, playerId) = 0 \/ ctx.this.gameState = NoGame
        THEN sendError(ctx, playerId, "Invalid request")
        ELSE IF clientMessage.type = "MAKE_MOVE"
        THEN IF ~limited.ok THEN sendError(ctx, playerId, "Too many requests")
             ELSE handleMakeMove(limited.ctx, playerId, clientMessage.payload)
        ELSE sendError(ctx, playerId, "Invalid request")

\* the 'message' listener of an open server socket: it was registered with
\* the playerId of the connect that created the socket
Message(websocket, clientMessage) ==
    /\ budget.messages > 0
    /\ budget' = [budget EXCEPT !.messages = @ - 1]
    /\ websocket \in DOMAIN sockets
    /\ sockets[websocket].state = "open"
    /\ Leaves(handleWebSocketMessage(Ctx, sockets[websocket].playerId, clientMessage))
    /\ sessLast' = [NoEvent EXCEPT !.handler = "message",
                                   !.playerId = sockets[websocket].playerId]
    /\ UNCHANGED <<now, newGameStatus>>
    /\ UNCHANGED <<engineVars, winVars, mmVars, applyVars, clientVars>>

handlePlayerDisconnect(ctx, playerId) ==
    LET i == playerIndex(ctx, playerId)
        c1 == broadcastGameState([ctx EXCEPT !.this.players[i].connected = FALSE])
        cleanupTimeout == IF getConnectedPlayerCount(c1) = 0 THEN 60000 ELSE 600000
    IN  IF i = 0 THEN ctx ELSE scheduleCleanupAlarm(c1, cleanupTimeout)

\* a server socket closes and its 'close' listener runs: it was registered
\* with the playerId of the connect that created the socket
CloseHandler(websocket) ==
    /\ websocket \in DOMAIN sockets
    /\ LET gone == [Ctx EXCEPT !.sockets =
                       [w \in DOMAIN sockets \ {websocket} |-> sockets[w]]]
       IN  Leaves(handlePlayerDisconnect(gone, sockets[websocket].playerId))
    /\ sessLast' = [NoEvent EXCEPT !.handler = "close",
                                   !.playerId = sockets[websocket].playerId]
    /\ UNCHANGED <<now, newGameStatus, budget>>
    /\ UNCHANGED <<engineVars, winVars, mmVars, applyVars, clientVars>>

prepareForHibernation(ctx) ==
    LET c1 == [ctx EXCEPT !.this.gameState = NoGame,
                          !.this.gameId = 0,
                          !.this.moveRateLimit = << >>,
                          !.this.players = << >>]
    IN  cancelCleanupAlarm(c1)

\* a player the cleanup removes: not connected and not heard of for more
\* than the stale timeout of 10 minutes
isStale(player) == ~player.connected /\ now - player.lastPing > 600000

cleanupStaleConnections(ctx) ==
    LET stale == {w \in DOMAIN ctx.sockets :
                     \E i \in 1 .. Len(ctx.this.players) :
                         /\ isStale(ctx.this.players[i])
                         /\ ctx.this.players[i].websocket = w
                         /\ ctx.sockets[w].playerId = ctx.this.players[i].playerId}
        c1 == [ctx EXCEPT !.this.players = SelectSeq(@, LAMBDA player : ~isStale(player)),
                          !.sockets = [w \in DOMAIN ctx.sockets \ stale |-> ctx.sockets[w]]]
    IN  IF Len(c1.this.players) = 0 THEN prepareForHibernation(c1) ELSE c1

\* alarm(): the alarm set in storage is due; it is consumed when it fires
Alarm ==
    /\ storage.alarm # NoAlarm
    /\ now >= storage.alarm
    /\ LET c1 == [Ctx EXCEPT !.storage.alarm = NoAlarm, !.this.cleanupAlarmId = NoAlarm]
           hasConnectedPlayers ==
               \E i \in 1 .. Len(this.players) : this.players[i].connected
       IN  Leaves(IF ~hasConnectedPlayers THEN cleanupStaleConnections(c1)
                  ELSE scheduleCleanupAlarm(c1, 600000))
    /\ sessLast' = [NoEvent EXCEPT !.handler = "alarm"]
    /\ UNCHANGED <<now, newGameStatus, budget>>
    /\ UNCHANGED <<engineVars, winVars, mmVars, applyVars, clientVars>>

\* the host evicts the object: the next event constructs it again, with the
\* field initializers; its sockets are gone, its storage and alarm are kept
Restart ==
    /\ this' = FieldInitializers
    /\ sockets' = << >>
    /\ outbox' = << >>
    /\ sessLast' = NoEvent
    /\ UNCHANGED <<storage, now, newGameStatus, budget>>
    /\ UNCHANGED <<engineVars, winVars, mmVars, applyVars, clientVars>>

\* time passes between two handlers
Tick(step) ==
    /\ budget.ticks > 0
    /\ budget' = [budget EXCEPT !.ticks = @ - 1]
    /\ now' = now + step
    /\ UNCHANGED <<this, storage, sockets, newGameStatus, outbox, sessLast>>
    /\ UNCHANGED <<engineVars, winVars, mmVars, applyVars, clientVars>>

SessionStart ==
    /\ this = FieldInitializers
    /\ storage = EmptyStorage
    /\ now = 0
    /\ sockets = << >>
    /\ newGameStatus \in NewGameStatuses
    /\ outbox = << >>
    /\ sessLast = NoEvent
    /\ budget = [ticks |-> MaxTicks, messages |-> MaxMessages]
    /\ EngineIdle
    /\ WinnerIdle
    /\ MMIdle
    /\ ApplyIdle
    /\ ClientIdle

\* In this specification the storage puts of /init succeed; a put that throws
\* is the putFails input of initResponse where the matchmaking actor awaits
\* the answer (InitResolves).
SessionNext ==
    \/ \E body \in InitBodies : SessionInit(body, 0)
    \/ \E input \in ConnectInputs : Connect(input[1], input[2])
    \/ \E websocket \in 1 .. MaxSockets, clientMessage \in ClientMessages :
           Message(websocket, clientMessage)
    \/ \E websocket \in 1 .. MaxSockets : CloseHandler(websocket)
    \/ Alarm
    \/ Restart
    \/ \E step \in TickSteps : Tick(step)

SpecSession == SessionStart /\ [][SessionNext]_vars

(***************************************************************************)
(* SpecTeardown: the connections of one session and its alarm.  The        *)
(* session is initialized for p1 and p2, who connect, reconnect and        *)
(* disconnect; time moves on to the alarm set for an empty session         *)
(* (1 minute) or past the stale timeout (10 minutes).                      *)
(***************************************************************************)
TeardownSteps == {60000, 600001}

TeardownNext ==
    \/ storage.gameId = 0 /\ SessionInit(FirstBody, 0)
    \/ \E slot \in 1 .. 2 :
           /\ storage.gameId # 0
           /\ Connect(FirstBody.players[slot].id, FirstBody.players[slot].token)
    \/ \E websocket \in 1 .. MaxSockets : CloseHandler(websocket)
    \/ Alarm
    \/ \E step \in TeardownSteps : Tick(step)

SpecTeardown == SessionStart /\ [][TeardownNext]_vars

(***************************************************************************)
(* SpecMoves: one match of the session actor.  The session is initialized  *)
(* for p1 and p2, who connect with their tokens.  The players send         *)
(* MaxFreeMessages messages of MoveMessages, whoever's turn it is.  Before *)
(* the last of them the match is played: the player whose turn it is sends *)
(* the first entry of getValidMovesForGame, and waits for its rate-limit   *)
(* window to pass when it has used it up; the socket of the other player   *)
(* may close.  The last free message comes at a ProbePoint of the match,   *)
(* at once or MaxFreeTicks steps of time later.  A player who left         *)
(* connects again when the game is over.                                   *)
(***************************************************************************)
MaxFreeMessages == 2
MaxFreeTicks == 1
MaxProbedMoves == 2

\* between two free messages: past the 5 seconds of the duplicate test
FreeTickSteps == {5000}

\* (boardIndex, cellIndex) of the free messages: a first move, moves in and
\* outside the sub-board it sends to, and indices out of range
MovePositions == { <<0, 0>>, <<0, 4>>, <<4, 4>>, <<9, 0>>, <<0, 9>> }
MoveSeqInputs == {NoSeq, 1, 2}

MoveMessages ==
    { [type |-> "MAKE_MOVE",
       payload |-> [boardIndex |-> pos[1], cellIndex |-> pos[2], sequenceNumber |-> n]] :
          pos \in MovePositions, n \in MoveSeqInputs }
    \cup { [type |-> "MAKE_MOVE", payload |-> NoPayload],
           [type |-> "JOIN_GAME", payload |-> NoPayload] }

MovesStart ==
    /\ this = FieldInitializers
    /\ storage = EmptyStorage
    /\ now = 0
    /\ sockets = << >>
    /\ newGameStatus \in NewGameStatuses
    /\ outbox = << >>
    /\ sessLast = NoEvent
    /\ budget = [ticks |-> MaxFreeTicks, messages |-> MaxFreeMessages]
    /\ EngineIdle
    /\ WinnerIdle
    /\ MMIdle
    /\ ApplyIdle
    /\ ClientIdle

\* the match is played while one free message is left and no time was let
\* pass before it
MatchPlayed == budget.messages = 1 /\ budget.ticks = MaxFreeTicks

NobodyLeft == \A i \in 1 .. Len(this.players) : this.players[i].connected

\* the socket of the player whose turn it is
TurnSocket(websocket) ==
    /\ websocket \in DOMAIN sockets
    /\ sockets[websocket].state = "open"
    /\ this.gameState # NoGame
    /\ LET i == playerIndex(Ctx, sockets[websocket].playerId)
       IN  i # 0 /\ this.players[i].symbol = this.gameState.currentPlayer

\* playerId has sent 5 moves in its rate-limit window, which is not over
RateLimited(playerId) ==
    /\ playerId \in DOMAIN this.moveRateLimit
    /\ now <= this.moveRateLimit[playerId].resetTime
    /\ this.moveRateLimit[playerId].count >= 5

\* where the last free message comes: in the first MaxProbedMoves moves of
\* the match, when the player to move has used up its window, and when the
\* game is over
ProbePoint ==
    \/ this.gameState = NoGame
    \/ Len(this.moves) <= MaxProbedMoves
    \/ this.gameState.status = "finished"
    \/ \E websocket \in DOMAIN sockets :
           TurnSocket(websocket) /\ RateLimited(sockets[websocket].playerId)

\* the 'message' listener with the MAKE_MOVE of a client that plays the
\* first of the moves the rules allow
GuidedMessage(websocket) ==
    /\ MatchPlayed
    /\ TurnSocket(websocket)
    /\ LET validMoves == getValidMovesForGame(this.gameState)
       IN  /\ Len(validMoves) > 0
           /\ Leaves(handleWebSocketMessage(Ctx, sockets[websocket].playerId,
                  [ type |-> "MAKE_MOVE",
                    payload |-> [ boardIndex |-> validMoves[1].boardIndex,
                                  cellIndex |-> validMoves[1].cellIndex,
                                  sequenceNumber |-> NoSeq ] ]))
    /\ sessLast' = [NoEvent EXCEPT !.handler = "message",
                                   !.playerId = sockets[websocket].playerId]
    /\ UNCHANGED <<now, newGameStatus, budget>>
    /\ UNCHANGED <<engineVars, winVars, mmVars, applyVars, clientVars>>

\* the player whose turn it is has used up its rate-limit window and waits
\* until the window is over
WindowPasses(websocket) ==
    /\ MatchPlayed
    /\ TurnSocket(websocket)
    /\ LET playerId == sockets[websocket].playerId
       IN  /\ RateLimited(playerId)
           /\ now' = this.moveRateLimit[playerId].resetTime + 1
    /\ UNCHANGED <<this, storage, sockets, newGameStatus, outbox, sessLast, budget>>
    /\ UNCHANGED <<engineVars, winVars, mmVars, applyVars, clientVars>>

\* the game in memory is finished
GameIsOver == this.gameState # NoGame /\ this.gameState.status = "finished"

\* playerId has a Connection entry that is marked disconnected
HasLeft(playerId) ==
    /\ playerIndex(Ctx, playerId) # 0
    /\ ~this.players[playerIndex(Ctx, playerId)].connected

MovesNext ==
    \/ storage.gameId = 0 /\ SessionInit(FirstBody, 0)
    \/ \E slot \in 1 .. 2 :
           /\ storage.gameId # 0
           /\ playerIndex(Ctx, FirstBody.players[slot].id) = 0
           /\ Connect(FirstBody.players[slot].id, FirstBody.players[slot].token)
    \/ \E websocket \in 1 .. MaxSockets, clientMessage \in MoveMessages :
           NobodyLeft /\ ProbePoint /\ Message(websocket, clientMessage)
    \/ \E step \in FreeTickSteps :
           budget.messages = 1 /\ NobodyLeft /\ ProbePoint /\ Tick(step)
    \/ \E websocket \in 1 .. MaxSockets : GuidedMessage(websocket)
    \/ \E websocket \in 1 .. MaxSockets : WindowPasses(websocket)
    \/ \E websocket \in 1 .. MaxSockets :
           MatchPlayed /\ ~TurnSocket(websocket) /\ CloseHandler(websocket)
    \/ \E slot \in 1 .. 2 :
           /\ GameIsOver
           /\ HasLeft(FirstBody.players[slot].id)
           /\ Connect(FirstBody.players[slot].id, FirstBody.players[slot].token)

SpecMoves == MovesStart /\ [][MovesNext]_vars

(***************************************************************************)
(* SpecEngine: a caller that holds one GameState and plays moves through   *)
(* applyMove.  The first FreeMoves moves are any move applyMove accepts;   *)
(* after them the caller plays the first entry of getValidMovesForGame.    *)
(***************************************************************************)
FreeMoves == 1

\* number of cells written so far = number of accepted moves
MovesPlayed(gameState) ==
    Cardinality({pos \in Idx \X Idx : gameState.board.sub[pos[1]][pos[2]] # Null})

EngineInit ==
    /\ game = createNewGame
    /\ lastMove = NoMove
    /\ freeLeft = FreeMoves
    /\ WinnerIdle
    /\ MMIdle
    /\ ApplyIdle
    /\ ClientIdle
    /\ SessIdle

PlayMove(move) ==
    LET result == applyMove(game, move)
    IN  /\ result.valid
        /\ game' = result.newGameState
        /\ lastMove' = move
        /\ UNCHANGED <<winVars, mmVars, sessVars, applyVars, clientVars>>

FreeMove ==
    /\ freeLeft > 0
    /\ freeLeft' = freeLeft - 1
    /\ \E boardIndex \in Idx, cellIndex \in Idx, player \in PlayerSymbol :
           PlayMove(createMove(boardIndex, cellIndex, player))

GuidedMove ==
    /\ freeLeft = 0
    /\ UNCHANGED freeLeft
    /\ LET validMoves == getValidMovesForGame(game)
       IN  /\ Len(validMoves) > 0
           /\ PlayMove(createMove(validMoves[1].boardIndex, validMoves[1].cellIndex,
                                  game.currentPlayer))

EngineNext == FreeMove \/ GuidedMove

SpecEngine == EngineInit /\ [][EngineNext]_vars

(***************************************************************************)
(* SpecWin: the winner check as a function of an arbitrary 3x3 board       *)
(***************************************************************************)
WinInit ==
    /\ winBoard \in [Idx -> Cell]
    /\ winResult = WinIdle
    /\ EngineIdle
    /\ MMIdle
    /\ ApplyIdle
    /\ ClientIdle
    /\ SessIdle

CheckWinner ==
    /\ ~winResult.done
    /\ winResult' = [ done |-> TRUE,
                      sub |-> checkSubBoardWinner(winBoard),
                      main |-> checkMainBoardWinner(winBoard) ]
    /\ UNCHANGED <<winBoard, engineVars, mmVars, sessVars, applyVars, clientVars>>

WinNext == CheckWinner

SpecWin == WinInit /\ [][WinNext]_vars

(***************************************************************************)
(* SpecApply: a caller that holds a reference to one GameState and calls   *)
(* applyMove with it, as the session does: a state applyMove returns takes *)
(* the place of the one held.  The caller tries the moves of ProbeMoves,   *)
(* legal or not, and the first entry of getValidMovesForGame.              *)
(***************************************************************************)
\* a new state is built where the state held is not
freshRef == IF held = 0 THEN 4 + TOTAL_CELLS ELSE 0

\* the indices of the moves tried: two on the board and one out of range
ProbeCells == {0, 4, TOTAL_CELLS}

ProbeMoves ==
    { createMove(boardIndex, cellIndex, player) :
          boardIndex \in ProbeCells, cellIndex \in ProbeCells, player \in PlayerSymbol }

ApplyInit ==
    /\ heap = objectsOf(0, createNewGame)
    /\ held = 0
    /\ applyCall = NoCall
    /\ EngineIdle
    /\ WinnerIdle
    /\ MMIdle
    /\ SessIdle
    /\ ClientIdle

ApplyCall(move) ==
    LET result == applyMoveObjects(heap, held, move, freshRef)
    IN  /\ heap' = result.heap
        /\ held' = IF result.valid THEN result.newGameState ELSE held
        /\ applyCall' = [ input |-> held, before |-> deref(heap, held), move |-> move,
                          valid |-> result.valid, error |-> result.error,
                          newGameState |-> result.newGameState ]
        /\ UNCHANGED <<engineVars, winVars, mmVars, sessVars, clientVars>>

ApplyProbe == \E move \in ProbeMoves : ApplyCall(move)

ApplyGuided ==
    LET gameState == deref(heap, held)
        validMoves == getValidMovesForGame(gameState)
    IN  /\ Len(validMoves) > 0
        /\ ApplyCall(createMove(validMoves[1].boardIndex, validMoves[1].cellIndex,
                                gameState.currentPlayer))

ApplyNext == ApplyProbe \/ ApplyGuided

SpecApply == ApplyInit /\ [][ApplyNext]_vars

(***************************************************************************)
(* The client.  SpecNotation: the notation functions                       *)
(* (utils/chessNotation.ts); a notation is a string.  SpecStore: the       *)
(* nickname of the game store (store/gameStore.ts with utils/nickname.ts); *)
(* a nickname is a sequence of characters, each a one-character string, a  *)
(* character outside ASCII being written by a longer name.                 *)
(***************************************************************************)
\* Object.entries(table).find(([, value]) => value === part)?.[0], as a
\* number; -1 for undefined
findEntry(table, part) ==
    IF \E k \in 1 .. Len(table) : table[k] = part
    THEN (CHOOSE k \in 1 .. Len(table) :
              /\ table[k] = part
              /\ \A j \in 1 .. (k - 1) : table[j] # part) - 1
    ELSE -1

\* mutant: the board part is the first character
chessNotationToMove_FirstChar(notation, i) ==
    LET boardIndex == findEntry(BOARD_NOTATION, SubSeq(notation, 1, 1))
        cellIndex == findEntry(CELL_NOTATION, SubSeq(notation, 2, Len(notation)))
    IN  IF Len(notation) >= 2 /\ boardIndex # -1 /\ cellIndex # -1
        THEN [boardIndex |-> boardIndex, cellIndex |-> cellIndex]
        ELSE NoDecoded

\* chessNotationToMove(notation), its loop from split i on
RECURSIVE chessNotationToMove(_, _)
chessNotationToMove(notation, i) ==
    IF i > Len(notation) - 1 THEN NoDecoded
    ELSE LET boardIndex == findEntry(BOARD_NOTATION, SubSeq(notation, 1, i))
             cellIndex == findEntry(CELL_NOTATION, SubSeq(notation, i + 1, Len(notation)))
         IN  IF boardIndex # -1 /\ cellIndex # -1
             THEN [boardIndex |-> boardIndex, cellIndex |-> cellIndex]
             ELSE chessNotationToMove(notation, i + 1)

\* the characters of a string
Chars(str) == [i \in 1 .. Len(str) |-> SubSeq(str, i, i)]

UPPER == Chars("ABCDEFGHIJKLMNOPQRSTUVWXYZ")
LOWER == Chars("abcdefghijklmnopqrstuvwxyz")
DIGITS == Chars("0123456789")
Range(f) == {f[i] : i \in DOMAIN f}

\* \s
WhiteSpace == {" ", "\t", "\n"}

PROFANITY_BLOCKLIST ==
    << "fuck", "shit", "bitch", "bastard", "asshole", "dick", "cunt", "pussy",
       "slut", "whore", "nigger", "nigga", "chink", "spic", "kike", "porn", "xxx" >>

LEET_MAP ==
    [ ch \in {"0", "1", "!", "l", "3", "4", "@", "5", "$", "7", "+", "8", "9"} |->
        CASE ch = "0" -> "o" [] ch \in {"1", "!", "l"} -> "i" [] ch = "3" -> "e"
          [] ch \in {"4", "@"} -> "a" [] ch \in {"5", "$"} -> "s"
          [] ch \in {"7", "+"} -> "t" [] ch = "8" -> "b" [] ch = "9" -> "g" ]

\* input.replace(/\s+/g, " "), from character i on
RECURSIVE collapseWhitespace(_, _)
collapseWhitespace(input, i) ==
    IF i > Len(input) THEN << >>
    ELSE IF input[i] \notin WhiteSpace THEN << input[i] >> \o collapseWhitespace(input, i + 1)
    ELSE IF i > 1 /\ input[i - 1] \in WhiteSpace THEN collapseWhitespace(input, i + 1)
    ELSE << " " >> \o collapseWhitespace(input, i + 1)

normalizeWhitespace(input) ==
    LET collapsed == collapseWhitespace(input, 1)
        first == IF collapsed # << >> /\ collapsed[1] = " " THEN 2 ELSE 1
        last == IF collapsed # << >> /\ collapsed[Len(collapsed)] = " "
                THEN Len(collapsed) - 1 ELSE Len(collapsed)
    IN  SubSeq(collapsed, first, last)

\* a character of \p{ASCII}
isAscii(ch) == Len(ch) = 1

stripNonAscii(input) == SelectSeq(input, isAscii)

\* a character of [A-Za-z0-9 ]
isAllowed(ch) == ch \in Range(UPPER) \cup Range(LOWER) \cup Range(DIGITS) \cup {" "}

removeSymbols(input) == SelectSeq(input, isAllowed)

toLowerCase(ch) ==
    IF ch \in Range(UPPER) THEN LOWER[CHOOSE k \in 1 .. 26 : UPPER[k] = ch] ELSE ch

normalizeForProfanity(input) ==
    LET noSpaces == SelectSeq([i \in 1 .. Len(input) |-> toLowerCase(input[i])],
                              LAMBDA ch : ch \notin WhiteSpace)
    IN  [i \in 1 .. Len(noSpaces) |->
            IF noSpaces[i] \in DOMAIN LEET_MAP THEN LEET_MAP[noSpaces[i]] ELSE noSpaces[i]]

sanitizeNickname(rawInput) ==
    normalizeWhitespace(removeSymbols(stripNonAscii(normalizeWhitespace(rawInput))))

\* normalized.includes(bad)
includes(normalized, bad) ==
    \E i \in 1 .. Len(normalized) :
        /\ i + Len(bad) - 1 <= Len(normalized)
        /\ SubSeq(normalized, i, i + Len(bad) - 1) = Chars(bad)

\* validateNickname(rawInput); the dash of the length message is written "-"
validateNickname(rawInput) ==
    LET sanitized == sanitizeNickname(rawInput)
        rawWhitespaceNormalized == normalizeWhitespace(rawInput)
        normalized == normalizeForProfanity(sanitized)
        required == IF sanitized = << >> THEN << "Display name is required." >> ELSE << >>
        characters ==
            IF /\ rawWhitespaceNormalized # << >>
               /\ \E i \in 1 .. Len(rawWhitespaceNormalized) :
                      \/ ~isAscii(rawWhitespaceNormalized[i])
                      \/ ~isAllowed(rawWhitespaceNormalized[i])
            THEN << "Only letters, numbers, and spaces are allowed." >> ELSE << >>
        length == IF Len(sanitized) < 3 \/ Len(sanitized) > 20
                  THEN << "Must be 3-20 characters long." >> ELSE << >>
        profanity ==
            IF \E k \in 1 .. Len(PROFANITY_BLOCKLIST) : includes(normalized, PROFANITY_BLOCKLIST[k])
            THEN << "Please choose a different, family-friendly display name." >> ELSE << >>
        errors == required \o characters \o length \o profanity
    IN  [isValid |-> errors = << >>, sanitized |-> sanitized, errors |-> errors]

\* setPlayerNickname of store/gameStore.ts
setPlayerNickname(st, nickname) == [st EXCEPT !.playerNickname = nickname]

\* setPlayerNickname of the other copy of the store, which validates
setPlayerNicknameValidated(st, nickname) ==
    LET result == validateNickname(nickname)
    IN  IF ~result.isValid
        THEN [st EXCEPT !.error = IF result.errors # << >> THEN result.errors[1]
                                  ELSE "Invalid display name"]
        ELSE [st EXCEPT !.playerNickname = result.sanitized, !.error = NoString]

\* the two copies of the store module
StoreModules == {"store/gameStore.ts", "part_010"}

\* how long a typed nickname is, and the characters typed
MaxTyped == 3
TypedChars == {" ", "x", "1", "!"}

RECURSIVE Typed(_)
Typed(n) ==
    IF n = 0 THEN {<< >>}
    ELSE Typed(n - 1) \cup { Append(t, ch) : t \in { u \in Typed(n - 1) : Len(u) = n - 1 },
                                               ch \in TypedChars }

Repeat(ch, n) == [i \in 1 .. n |-> ch]

NicknameInputs ==
    Typed(MaxTyped)
    \cup { Chars("sh1t"), Chars("f u c k"), Chars("p0rn"), Chars("  Alice   42  "),
           Chars("Alice Bob 123"), Chars("John_Doe!#123"), Repeat("J", 20), Repeat("J", 21),
           <<"J", "o-umlaut", "h", "n">>, <<"J", "o", "\t", "\n", "e">> }

\* strings handed to chessNotationToMove that no move encodes to
NotationProbes ==
    { board \o cell : board \in {"UL", "U", "L", "Lo", "LL", "X", ""},
                      cell \in {"ul", "u", "lo", "l", "x", "", "UL"} }

NotationInit ==
    /\ ClientIdle
    /\ EngineIdle
    /\ WinnerIdle
    /\ MMIdle
    /\ SessIdle
    /\ ApplyIdle

\* a move is written in notation and the notation is read back
Encode(boardIndex, cellIndex) ==
    LET notation == moveToChessNotation(createMove(boardIndex, cellIndex, X))
    IN  /\ note' = [NoNote EXCEPT !.call = "moveToChessNotation",
                                  !.boardIndex = boardIndex, !.cellIndex = cellIndex,
                                  !.notation = notation,
                                  !.decoded = chessNotationToMove(notation, 1)]
        /\ UNCHANGED <<store, gws, engineVars, winVars, mmVars, sessVars, applyVars>>

Decode(notation) ==
    /\ note' = [NoNote EXCEPT !.call = "chessNotationToMove", !.notation = notation,
                              !.decoded = chessNotationToMove(notation, 1)]
    /\ UNCHANGED <<store, gws, engineVars, winVars, mmVars, sessVars, applyVars>>

NotationNext ==
    \/ \E boardIndex \in Idx, cellIndex \in Idx : Encode(boardIndex, cellIndex)
    \/ \E notation \in NotationProbes : Decode(notation)

SpecNotation == NotationInit /\ [][NotationNext]_vars

StoreInit ==
    /\ note = NoNote
    /\ gws = NewGameWebSocket
    /\ store \in { NewStore(module) : module \in StoreModules }
    /\ EngineIdle
    /\ WinnerIdle
    /\ MMIdle
    /\ SessIdle
    /\ ApplyIdle

SetPlayerNickname(nickname) ==
    /\ store' = IF store.module = "part_010"
                THEN setPlayerNicknameValidated(store, nickname)
                ELSE setPlayerNickname(store, nickname)
    /\ note' = [NoNote EXCEPT !.call = "setPlayerNickname", !.nickname = nickname]
    /\ UNCHANGED <<gws, engineVars, winVars, mmVars, sessVars, applyVars>>

StoreNext == \E nickname \in NicknameInputs : SetPlayerNickname(nickname)

SpecStore == StoreInit /\ [][StoreNext]_vars

(***************************************************************************)
(* Properties of the engine.  The rules are restated here on their own,    *)
(* without the engine's operators, so that the engine is what is checked.  *)
(***************************************************************************)
Rows == {{0, 1, 2}, {3, 4, 5}, {6, 7, 8}}
Columns == {{0, 3, 6}, {1, 4, 7}, {2, 5, 8}}
Diagonals == {{0, 4, 8}, {2, 4, 6}}

\* symbol s holds a whole row, column or diagonal of the 3x3 board
HasLine(board, s) == \E t \in Rows \cup Columns \cup Diagonals : \A i \in t : board[i] = s
IsFull(board) == \A i \in 0 .. 8 : board[i] \in {X, O}
IsCompleted(board) == HasLine(board, X) \/ HasLine(board, O) \/ IsFull(board)

\* C6: when a legal move leaves every sub-board completed (won or full) and
\* no macro-board triple owned by one player, the game is finished with
\* winner draw, also when some sub-boards are drawn.
C6_DrawDetected ==
    ( /\ lastMove # NoMove
      /\ \A b \in 0 .. 8 : IsCompleted(game.board.sub[b])
      /\ ~HasLine(game.board.main, X)
      /\ ~HasLine(game.board.main, O) )
    => (game.status = "finished" /\ game.winner = "draw")

\* the legality rule of the specification, for a move (player, b, c);
\* completed says whether sub-board b is completed (won or full)
LegalMove(gameState, player, b, c, completed) ==
    /\ gameState.status = "playing"
    /\ player = gameState.currentPlayer
    /\ b \in 0 .. 8
    /\ c \in 0 .. 8
    /\ gameState.board.sub[b][c] = Null
    /\ ~completed
    /\ (gameState.board.activeBoard = NoBoard \/ gameState.board.activeBoard = b)

\* indices tried against the engine: 0..8 and one step outside on each side
ProbeIdx == (0 - 1) .. TOTAL_CELLS

\* C7: in every reachable game state, for every move, isValidMove is true
\* exactly when the move is legal by the rule, and applyMove accepts exactly
\* those moves.
C7_MoveLegality ==
    \A b \in ProbeIdx :
        LET completed == b \in 0 .. 8 /\ IsCompleted(game.board.sub[b])
        IN  \A c \in ProbeIdx, player \in PlayerSymbol :
                LET legal == LegalMove(game, player, b, c, completed)
                IN  /\ isValidMove(game, createMove(b, c, player)) = legal
                    /\ applyMove(game, createMove(b, c, player)).valid = legal

\* a game in progress, free choice of board, and an empty cell of a won
\* sub-board that the engine refuses
C7_Witness ==
    /\ game.status = "playing"
    /\ game.board.activeBoard = NoBoard
    /\ \E b \in 0 .. 8, c \in 0 .. 8 :
           /\ game.board.sub[b][c] = Null
           /\ HasLine(game.board.sub[b], lastMove.player)
           /\ ~isValidMove(game, createMove(b, c, game.currentPlayer))

\* C8: after every accepted move at cellIndex c, activeBoard is c if
\* sub-board c is not completed in the resulting position and "any" if it
\* is, the completion being that of the position after the move.
C8_ActiveBoardRule ==
    lastMove # NoMove =>
        game.board.activeBoard =
            IF IsCompleted(game.board.sub[lastMove.cellIndex])
            THEN NoBoard ELSE lastMove.cellIndex

\* a move with boardIndex = cellIndex that completes its own sub-board
C8_Witness ==
    /\ lastMove # NoMove
    /\ lastMove.boardIndex = lastMove.cellIndex
    /\ HasLine(game.board.sub[lastMove.cellIndex], lastMove.player)
    /\ game.board.activeBoard = NoBoard
    /\ game.status = "playing"

\* C9: from a new game (X to move) currentPlayer flips after each accepted
\* move, so X is to move after an even number of moves and O after an odd
\* number; after the move that finishes the game it stays the mover.
C9_TurnAlternation ==
    LET n == MovesPlayed(game)
        nth(k) == IF k % 2 = 1 THEN X ELSE O    \* who plays the k-th move
    IN  /\ game.status = "playing" => game.currentPlayer = nth(n + 1)
        /\ lastMove # NoMove => lastMove.player = nth(n)
        /\ game.status = "finished" => game.currentPlayer = lastMove.player

\* a finished game whose currentPlayer is still the player of the last move
C9_Witness ==
    /\ game.status = "finished"
    /\ game.winner \in {X, O}
    /\ game.currentPlayer = lastMove.player
    /\ MovesPlayed(game) > FreeMoves

\* the 8 triples in canonical order: rows, columns, diagonals
CanonicalTriples ==
    << {0, 1, 2}, {3, 4, 5}, {6, 7, 8}, {0, 3, 6}, {1, 4, 7}, {2, 5, 8}, {0, 4, 8}, {2, 4, 6} >>

Uniform(board, k) ==
    \E s \in {X, O} : \A i \in CanonicalTriples[k] : board[i] = s

ExpectedWinner(board) ==
    IF \A k \in 1 .. 8 : ~Uniform(board, k) THEN Null
    ELSE LET first == CHOOSE k \in 1 .. 8 :
                          Uniform(board, k) /\ \A j \in 1 .. (k - 1) : ~Uniform(board, j)
         IN  board[CHOOSE i \in CanonicalTriples[first] : TRUE]

\* C10: for every 3x3 board both winner checks return the symbol of the
\* first uniform triple in canonical order, and none when no triple is
\* uniform (so a full board without a uniform triple is never won).
C10_WinDetection ==
    winResult.done =>
        /\ winResult.sub = ExpectedWinner(winBoard)
        /\ winResult.main = ExpectedWinner(winBoard)

\* a board holding a line of each symbol, where the order of the triples decides
C10_Witness ==
    /\ winResult.done
    /\ HasLine(winBoard, X)
    /\ HasLine(winBoard, O)
    /\ winResult.sub = O

\* a completely filled board without a uniform triple, reported as not won
C10_FullBoardWitness ==
    /\ winResult.done
    /\ IsFull(winBoard)
    /\ ~HasLine(winBoard, X) /\ ~HasLine(winBoard, O)
    /\ winResult.main = Null

(***************************************************************************)
(* Properties of the matchmaking actor                                     *)
(***************************************************************************)
\* C2: when session initialization fails after tryMatch dequeued P1 (older)
\* and P2, the queue at the return of the join call is P1, P2 followed by
\* the entries behind them.
C2_RollbackRestoresOrder ==
    (mmLast.call = "join" /\ mmLast.status = 400) =>
        queue = <<mmLast.pair[1], mmLast.pair[2]>> \o mmLast.behind

\* C3: for each pairing, each player gets matched:true for that game from at
\* most one join call; every later join is answered matched:false.
C3_MatchRecordSingleUse ==
    \A p \in PlayerIds, g \in GameIds : delivered[p][g] <= 1

\* C4: a MatchRecord exists, and matched:true is returned, only for a game
\* whose session answered /init with success.
C4_PublishedOnlyIfInitSucceeded ==
    /\ \A p \in DOMAIN matchedPlayers : sessionInits[matchedPlayers[p].gameId] = "ok"
    /\ mmLast.matched => sessionInits[mmLast.gameId] = "ok"

\* a join call of playerId returns in this step (a join that starts waiting
\* in tryMatch returns in a later one)
JoinReturns(playerId) ==
    /\ mmLast'.call = "join"
    /\ mmLast'.playerId = playerId
    /\ inFlight' \subseteq inFlight

QueueAtPairing(call) ==
    LET kept == { queue'[i] : i \in 1 .. Len(queue') }
        joining == CHOOSE entry \in {call.player1, call.player2} \cup kept :
                       entry.playerId = call.requestingPlayerId
    IN  Append(queue, joining)

PairsTwoOldest(call) ==
    LET atPairing == QueueAtPairing(call)
        pair == {call.player1, call.player2}
    IN  /\ \E i, j \in 1 .. Len(atPairing) :
               i # j /\ atPairing[i] = call.player1 /\ atPairing[j] = call.player2
        /\ \A i \in 1 .. Len(atPairing) :
               atPairing[i] \notin pair =>
                   \A paired \in pair : paired.joinedAt < atPairing[i].joinedAt

OlderGetsX(call) ==
    LET older == IF call.player1.joinedAt < call.player2.joinedAt
                 THEN call.player1 ELSE call.player2
        other == IF older = call.player1 THEN call.player2 ELSE call.player1
        admitted(entry, symbol) ==
            \E i \in 1 .. 2 : /\ InitBody(call).players[i].id = entry.playerId
                               /\ InitBody(call).players[i].symbol = symbol
    IN  admitted(older, X) /\ admitted(other, O)

RestKeepOrder(call) ==
    queue' = SelectSeq(QueueAtPairing(call),
                       LAMBDA entry : entry \notin {call.player1, call.player2})

\* C13: every pairing tryMatch makes consists of the two entries that were
\* oldest in the queue at that moment, the older of the two is assigned X
\* and the other O, and the remaining entries keep their relative order.
C13_FifoPairing ==
    [][ \A call \in inFlight' \ inFlight :
            PairsTwoOldest(call) /\ OlderGetsX(call) /\ RestKeepOrder(call) ]_vars

UniqueByPlayerId(q) ==
    \A i, j \in 1 .. Len(q) : q[i].playerId = q[j].playerId => i = j

\* C14: with calls processed one at a time, after every join, leave, failed
\* or successful pairing and maintenance pass no playerId occurs more than
\* once in the queue, and a join by a player who is already queued leaves
\* the queue as it was.
C14_QueueUnique ==
    [][ /\ UniqueByPlayerId(queue)
        /\ UniqueByPlayerId(queue')
        /\ \A p \in PlayerIds :
               ( /\ \E i \in 1 .. Len(queue) : queue[i].playerId = p
                 /\ inFlight = {}
                 /\ JoinReturns(p) ) => queue' = queue
      ]_vars

\* after a failed pairing put two entries back, the second of them joined
\* again and was told its position
C14_Witness ==
    /\ mmLast.call = "join"
    /\ mmLast.status = 200
    /\ ~mmLast.matched
    /\ mmLast.position = 2
    /\ Len(queue) = 2
    /\ \E g \in GameIds : sessionInits[g] = "threw"

(***************************************************************************)
(* Properties of the session actor                                         *)
(***************************************************************************)
\* the game a move log replays to: its moves applied in order to a new game
\* that is being played
RECURSIVE ReplayFrom(_, _, _)
ReplayFrom(gs, storedMoves, k) ==
    IF k > Len(storedMoves) THEN gs
    ELSE LET result == applyMove(gs, createMove(storedMoves[k].boardIndex,
                                                storedMoves[k].cellIndex,
                                                storedMoves[k].player))
         IN  ReplayFrom(IF result.valid THEN result.newGameState ELSE gs, storedMoves, k + 1)

Replay(storedMoves) == ReplayFrom(createNewGame, storedMoves, 1)

\* the last handler was a connect with an admitted playerId and its token,
\* it found no game in memory, and the persisted move log is not empty
ResumingConnect ==
    /\ sessLast.handler = "connect"
    /\ sessLast.status # 401
    /\ ~sessLast.hadGameState
    /\ Len(storage.moves) > 0

\* C1: a player who connects with an admitted playerId and matching token
\* after the volatile state was cleared, while the persisted move log is not
\* empty, is attached and receives a GAME_STATE whose board, currentPlayer
\* and status are those of the replayed move log.
C1_ResumeByReplay ==
    ResumingConnect =>
        /\ sessLast.status = 101
        /\ playerIndex(Ctx, sessLast.playerId) # 0
        /\ \E k \in 1 .. Len(outbox) :
               /\ outbox[k].type = "GAME_STATE"
               /\ outbox[k].playerId = sessLast.playerId
               /\ outbox[k].payload.board = Replay(storage.moves).board
               /\ outbox[k].payload.currentPlayer = Replay(storage.moves).currentPlayer
               /\ outbox[k].payload.status = Replay(storage.moves).status

\* C5: after the first successful /init, a later /init leaves the in-memory
\* and the persisted admission list as they were.
C5_AdmissionImmutable ==
    (sessLast.handler = "init" /\ sessLast.admitted # << >>) =>
        /\ this.allowedPlayers = sessLast.admitted
        /\ storage.allowedPlayers = sessLast.admitted

(***************************************************************************)
(* Properties of applyMove on objects                                      *)
(***************************************************************************)
\* C11: applyMove never touches its input.  For an illegal move it returns
\* valid:false, the fixed message and no new state; for a legal move it
\* returns a new state (the one the rules give); in both cases the state
\* passed in is afterwards what it was before.
C11_InputUntouched ==
    applyCall.input # NoRef =>
        LET before == applyCall.before
            move == applyCall.move
            b == move.boardIndex
            legal == LegalMove(before, move.player, b, move.cellIndex,
                               b \in 0 .. 8 /\ IsCompleted(before.board.sub[b]))
        IN  /\ deref(heap, applyCall.input) = before
            /\ ~legal => /\ ~applyCall.valid
                         /\ applyCall.error = "Invalid move"
                         /\ applyCall.newGameState = NoRef
            /\ legal => /\ applyCall.valid
                        /\ applyCall.newGameState \notin {NoRef, applyCall.input}
                        /\ deref(heap, applyCall.newGameState) = appliedState(before, move)
                        /\ deref(heap, applyCall.newGameState) # before

\* a legal move that won a sub-board was applied, and an illegal move was
\* refused
C11_Witness ==
    /\ applyCall.valid
    /\ \E b \in Idx : /\ applyCall.before.board.main[b] = Null
                      /\ deref(heap, held).board.main[b] # Null

C11_RefusedWitness ==
    /\ applyCall.input # NoRef
    /\ ~applyCall.valid
    /\ applyCall.move.boardIndex \in Idx
    /\ applyCall.move.cellIndex \in Idx

\* the admission list a connection attempt is tested against: the one in
\* memory, the persisted one when none is in memory
AdmissionList ==
    IF Len(this.allowedPlayers) > 0 THEN this.allowedPlayers ELSE storage.allowedPlayers

Admitted(playerId, token) ==
    \E i \in 1 .. Len(AdmissionList) :
        /\ AdmissionList[i].playerId = playerId
        /\ AdmissionList[i].token = token

\* C15: a connection is attached (a Connection entry created or updated,
\* state sent, upgrade answered) only if the presented playerId is in the
\* admission list with the presented token; otherwise the attempt is
\* answered Unauthorized and the connection map, the game state and the
\* timers are as they were.
C15_AdmissionControl ==
    [][ \A input \in ConnectInputs :
            Connect(input[1], input[2]) =>
                LET attached == \/ this'.players # this.players
                                \/ sockets' # sockets
                                \/ outbox' # << >>
                                \/ sessLast'.status # 401
                IN  /\ attached => Admitted(input[1], input[2])
                    /\ ~Admitted(input[1], input[2]) =>
                           /\ sessLast'.status = 401
                           /\ this'.players = this.players
                           /\ this'.gameState = this.gameState
                           /\ this'.cleanupAlarmId = this.cleanupAlarmId
                           /\ storage'.alarm = storage.alarm
      ]_vars

\* the connect of this step is a reconnection: playerId, admitted with this
\* token, has a Connection entry (nothing was purged since it connected)
\* that is marked disconnected
Reconnects(playerId, token) ==
    /\ Connect(playerId, token)
    /\ Admitted(playerId, token)
    /\ playerIndex(Ctx, playerId) # 0
    /\ ~this.players[playerIndex(Ctx, playerId)].connected

\* a GAME_STATE of this step to playerId that carries the board,
\* currentPlayer and move log the session held
CurrentStateSent(playerId) ==
    /\ this.gameState # NoGame
    /\ \E k \in 1 .. Len(outbox') :
           /\ outbox'[k].type = "GAME_STATE"
           /\ outbox'[k].playerId = playerId
           /\ outbox'[k].payload.board = this.gameState.board
           /\ outbox'[k].payload.currentPlayer = this.gameState.currentPlayer
           /\ outbox'[k].payload.moves = this.moves

\* C16: when an admitted player disconnected and connects again with the
\* same playerId and token before any purge, the session has exactly one
\* Connection entry for that playerId and at most two in all, the entry
\* keeps its symbol, and the GAME_STATE sent on reconnect carries the current
\* board, currentPlayer and move log.
C16_Reconnection ==
    [][ \A input \in ConnectInputs :
            Reconnects(input[1], input[2]) =>
                LET before == this.players[playerIndex(Ctx, input[1])]
                    entries == { i \in 1 .. Len(this'.players) :
                                     this'.players[i].playerId = input[1] }
                IN  /\ Cardinality(entries) = 1
                    /\ Len(this'.players) <= 2
                    /\ \A i \in entries : /\ this'.players[i].symbol = before.symbol
                                          /\ this'.players[i].connected
                    /\ CurrentStateSent(input[1])
      ]_vars

(***************************************************************************)
(* Properties of the session's move handling                               *)
(***************************************************************************)
\* the step is one of the free messages
FreeMessageStep == budget'.messages = budget.messages - 1

IsMakeMove(clientMessage) ==
    clientMessage.type = "MAKE_MOVE" /\ clientMessage.payload # NoPayload

SymbolOf(playerId) == this.players[playerIndex(Ctx, playerId)].symbol

\* the game state and the move log, in memory and persisted, are as before
MoveUnchanged ==
    /\ this'.gameState = this.gameState
    /\ this'.moves = this.moves
    /\ storage'.moves = storage.moves

\* the message from socket websocket is answered with an error or with a
\* MOVE_RESULT valid:false, and no MOVE_RESULT valid:true is sent
Refused(websocket) ==
    /\ \E k \in 1 .. Len(outbox') :
           /\ outbox'[k].to = websocket
           /\ \/ outbox'[k].type = "ERROR"
              \/ outbox'[k].type = "MOVE_RESULT" /\ ~outbox'[k].payload.valid
    /\ \A k \in 1 .. Len(outbox') :
           outbox'[k].type = "MOVE_RESULT" => ~outbox'[k].payload.valid

\* payload names a cell that the same player's move, among the last 10
\* entries of the log and accepted less than 5 seconds ago, was played in
Resubmitted(playerId, payload) ==
    \E k \in 1 .. Len(this.moves) :
        /\ k > Len(this.moves) - 10
        /\ this.moves[k].boardIndex = payload.boardIndex
        /\ this.moves[k].cellIndex = payload.cellIndex
        /\ this.moves[k].player = SymbolOf(playerId)
        /\ now - this.moves[k].timestamp < 5000

\* C17: a MAKE_MOVE whose (boardIndex, cellIndex) equals a move of the same
\* player among the last 10 log entries, accepted less than 5 seconds
\* earlier, is rejected whatever sequence number it carries, and the board,
\* currentPlayer and move log stay unchanged.
C17_DuplicateRejected ==
    [][ \A websocket \in DOMAIN sockets, clientMessage \in MoveMessages :
            ( /\ FreeMessageStep
              /\ IsMakeMove(clientMessage)
              /\ Resubmitted(sockets[websocket].playerId, clientMessage.payload)
              /\ Message(websocket, clientMessage) )
            => MoveUnchanged /\ Refused(websocket)
      ]_vars

\* a move was sent again within the 5 seconds, this time with a sequence
\* number above every one accepted, and was answered as a duplicate
C17_Witness ==
    /\ Len(this.moves) >= 1
    /\ budget.messages = 0
    /\ "p1" \in DOMAIN this.playerSequenceNumbers
    /\ this.playerSequenceNumbers["p1"] = 1
    /\ \E k \in 1 .. Len(outbox) :
           /\ outbox[k].playerId = "p1"
           /\ outbox[k].type = "ERROR"
           /\ outbox[k].payload.message = "Duplicate move detected"

LastAccepted(playerId) ==
    IF playerId \in DOMAIN this.playerSequenceNumbers
    THEN this.playerSequenceNumbers[playerId] ELSE 0

\* C18: a MAKE_MOVE whose sequenceNumber is at most the last one accepted
\* from that player is rejected without a change of game state or move log;
\* a move accepted with a sequenceNumber carries one above the last accepted,
\* which it becomes.
C18_SequenceNumbers ==
    [][ \A websocket \in DOMAIN sockets, clientMessage \in MoveMessages :
            ( /\ FreeMessageStep
              /\ IsMakeMove(clientMessage)
              /\ clientMessage.payload.sequenceNumber # NoSeq
              /\ Message(websocket, clientMessage) )
            => LET playerId == sockets[websocket].playerId
                   sequenceNumber == clientMessage.payload.sequenceNumber
               IN  /\ sequenceNumber <= LastAccepted(playerId) =>
                          /\ MoveUnchanged
                          /\ Refused(websocket)
                          /\ this'.playerSequenceNumbers = this.playerSequenceNumbers
                   /\ Len(this'.moves) > Len(this.moves) =>
                          /\ sequenceNumber > LastAccepted(playerId)
                          /\ this'.playerSequenceNumbers[playerId] = sequenceNumber
      ]_vars

\* a move that the rules allow was refused for its sequence number
C18_Witness ==
    /\ Len(this.moves) >= 2
    /\ \E k \in 1 .. Len(outbox) :
           /\ outbox[k].type = "ERROR"
           /\ outbox[k].payload.message = "Duplicate or out-of-order move"
           /\ this.gameState.currentPlayer = SymbolOf(outbox[k].playerId)
           /\ this.gameState.status = "playing"

\* the reasons a MAKE_MOVE of playerId is rejected for
RejectedFor(playerId, payload) ==
    \/ RateLimited(playerId)
    \/ payload = NoPayload
    \/ /\ payload # NoPayload
       /\ \/ payload.boardIndex \notin 0 .. 8
          \/ payload.cellIndex \notin 0 .. 8
          \/ SymbolOf(playerId) # this.gameState.currentPlayer
          \/ this.gameState.status # "playing"
          \/ /\ payload.sequenceNumber # NoSeq
             /\ payload.sequenceNumber <= LastAccepted(playerId)
          \/ Resubmitted(playerId, payload)
          \/ ~LegalMove(this.gameState, SymbolOf(playerId),
                        payload.boardIndex, payload.cellIndex,
                        IsCompleted(this.gameState.board.sub[payload.boardIndex]))

\* C19: every MAKE_MOVE the session rejects (rate limit, malformed payload,
\* index out of range, not the sender's turn, game not playing, stale
\* sequence number, duplicate, illegal by the rules) leaves the game state,
\* the move log in memory and persisted and the last sequence numbers
\* unchanged, is answered to the sender, and nothing is sent to the opponent.
C19_RejectedChangesNothing ==
    [][ \A websocket \in DOMAIN sockets, clientMessage \in MoveMessages :
            ( /\ FreeMessageStep
              /\ clientMessage.type = "MAKE_MOVE"
              /\ RejectedFor(sockets[websocket].playerId, clientMessage.payload)
              /\ Message(websocket, clientMessage) )
            => /\ MoveUnchanged
               /\ Refused(websocket)
               /\ this'.playerSequenceNumbers = this.playerSequenceNumbers
               /\ \A k \in 1 .. Len(outbox') :
                      outbox'[k].playerId = sockets[websocket].playerId
      ]_vars

\* with both players connected and a move played, the player whose turn it
\* is was refused a move for its rate limit
C19_Witness ==
    /\ Len(this.moves) >= 1
    /\ budget.messages = 0
    /\ Len(this.players) = 2
    /\ NobodyLeft
    /\ \E k \in 1 .. Len(outbox) :
           /\ outbox[k].type = "ERROR"
           /\ outbox[k].payload.message = "Too many requests"
           /\ this.gameState.currentPlayer = SymbolOf(outbox[k].playerId)

\* C20: when an accepted move finishes the game, every connection marked
\* connected is sent a MOVE_RESULT with the final board and after it a
\* GAME_OVER with the winner and the final board, and the cleanup alarm is
\* set, 30 seconds ahead, in that step.
C20_GameCompletion ==
    [][ ( /\ this.gameState # NoGame
          /\ this'.gameState # NoGame
          /\ this.gameState.status = "playing"
          /\ this'.gameState.status = "finished" )
        => /\ this'.gameState.winner \in {X, O, "draw"}
           /\ \A i \in 1 .. Len(this.players) :
                  this.players[i].connected =>
                      \E k, l \in 1 .. Len(outbox') :
                          /\ k < l
                          /\ outbox'[k].to = this.players[i].websocket
                          /\ outbox'[k].type = "MOVE_RESULT"
                          /\ outbox'[k].payload.valid
                          /\ outbox'[k].payload.board = this'.gameState.board
                          /\ outbox'[l].to = this.players[i].websocket
                          /\ outbox'[l].type = "GAME_OVER"
                          /\ outbox'[l].payload.winner = this'.gameState.winner
                          /\ outbox'[l].payload.finalBoard = this'.gameState.board
           /\ this'.cleanupAlarmId # NoAlarm
           /\ storage'.alarm = now' + 30000
      ]_vars

\* a move has just ended the game in a draw and both players were told
C20_Witness ==
    /\ this.gameState # NoGame
    /\ this.gameState.status = "finished"
    /\ this.gameState.winner = "draw"
    /\ storage.alarm = now + 30000
    /\ Cardinality({ k \in 1 .. Len(outbox) : outbox[k].type = "GAME_OVER" }) = 2

(***************************************************************************)
(* Properties of a repeated /init                                          *)
(***************************************************************************)
\* the admission list of the pairing of this session
FirstAdmissions == allowedFrom(FirstBody.players, 1)

\* /init arrives for the game id and the admissions the session already
\* persisted
RepeatedInit ==
    /\ storage.gameId = FirstBody.gameId
    /\ storage.allowedPlayers = FirstAdmissions
    /\ SessionInit(FirstBody, 0)

\* what of a game state the players see
Progress(gs) ==
    [board |-> gs.board, currentPlayer |-> gs.currentPlayer, status |-> gs.status]

C21_StartedWitness ==
    /\ sessLast.handler = "init"
    /\ sessLast.admitted = FirstAdmissions
    /\ this.allowedPlayers = FirstAdmissions
    /\ newGameStatus = SpecNewGameStatus
    /\ Len(storage.moves) = 0
    /\ Len(this.players) = 2
    /\ this.gameState # NoGame

(***************************************************************************)
(* Properties of the client                                                *)
(***************************************************************************)
\* the ways to split a notation into a board token and a cell token
Splits(notation) ==
    { i \in 0 .. Len(notation) :
        /\ \E k \in 1 .. 9 : BOARD_NOTATION[k] = SubSeq(notation, 1, i)
        /\ \E k \in 1 .. 9 : CELL_NOTATION[k] = SubSeq(notation, i + 1, Len(notation)) }

\* C22: for every pair (boardIndex, cellIndex) of 0..8 x 0..8, reading back
\* the notation of the move gives (boardIndex, cellIndex), and the notation
\* splits into a board token and a cell token in one way only.
C22_NotationRoundTrip ==
    note.call = "moveToChessNotation" =>
        /\ note.decoded = [boardIndex |-> note.boardIndex, cellIndex |-> note.cellIndex]
        /\ Cardinality(Splits(note.notation)) = 1

\* the move of board 7 ("Lo"), whose token starts like that of board 3 ("L"),
\* was written and read back
C22_Witness ==
    /\ note.call = "moveToChessNotation"
    /\ note.boardIndex = 7
    /\ note.cellIndex = 3
    /\ note.notation = "Lol"
    /\ note.decoded = [boardIndex |-> 7, cellIndex |-> 3]

\* C23: setPlayerNickname with a nickname that validation rejects leaves
\* playerNickname unchanged and sets a non-null error; with a nickname that
\* validation accepts it stores the sanitized nickname and sets error to
\* null.
C23_NicknameGuard ==
    [][ note'.call = "setPlayerNickname" =>
          LET result == validateNickname(note'.nickname)
          IN  IF result.isValid
              THEN store'.playerNickname = result.sanitized /\ store'.error = NoString
              ELSE store'.playerNickname = store.playerNickname /\ store'.error # NoString
      ]_vars

(***************************************************************************)
(* Properties of a finished match                                          *)
(***************************************************************************)
GameOverSent == \E k \in 1 .. Len(outbox) : outbox[k].type = "GAME_OVER"

\* C24: once the status of the match is finished, no later event short of
\* a purge sets status back to playing, changes the board or the winner,
\* appends to the move log, or sends GAME_OVER again.
C24_FinishedIsTerminal ==
    [][ (GameIsOver /\ this'.gameState # NoGame) =>
          /\ this'.gameState.status = "finished"
          /\ this'.gameState.board = this.gameState.board
          /\ this'.gameState.winner = this.gameState.winner
          /\ this'.moves = this.moves
          /\ storage'.moves = storage.moves
          /\ (outbox' # outbox => ~GameOverSent')
      ]_vars

(***************************************************************************)
(* Properties of the session's connections and teardown                    *)
(***************************************************************************)
SomebodyConnected == \E i \in 1 .. Len(this.players) : this.players[i].connected

\* C25: whenever the alarm fires and no connection is marked connected, the
\* session removes all Connection entries and clears the rate-limit map and
\* its volatile game fields, however recently the players had connected.
C25_TeardownOnIdle ==
    [][ (Alarm /\ ~SomebodyConnected) =>
          /\ this'.players = << >>
          /\ this'.moveRateLimit = << >>
          /\ this'.gameState = NoGame
          /\ this'.gameId = 0
      ]_vars

\* websocket is a channel of a player whose Connection holds another one
Replaced(websocket) ==
    /\ websocket \in DOMAIN sockets
    /\ LET i == playerIndex(Ctx, sockets[websocket].playerId)
       IN  i # 0 /\ this.players[i].websocket # websocket

\* C26: a close event of a channel that was replaced when its playerId
\* connected again does not mark that player's Connection disconnected and
\* arms no timer; a Connection is marked disconnected only in a step in
\* which the channel it holds closes or is found not to be open for a send.
C26_StaleCloseHarmless ==
    [][ /\ \A websocket \in 1 .. MaxSockets :
              (Replaced(websocket) /\ CloseHandler(websocket)) =>
                  /\ this'.players = this.players
                  /\ storage'.alarm = storage.alarm
        /\ \A i \in 1 .. Len(this.players) :
              ( /\ this.players[i].connected
                /\ i <= Len(this'.players)
                /\ this'.players[i].playerId = this.players[i].playerId
                /\ ~this'.players[i].connected ) =>
                  \/ this.players[i].websocket \notin DOMAIN sockets'
                  \/ sockets'[this.players[i].websocket].state # "open"
      ]_vars

(***************************************************************************)
(* Properties of the matchmaking actor's pairing                           *)
(***************************************************************************)
\* a tryMatch that was waiting in createGameSession has run to its end
PairingCompletes == inFlight' # inFlight /\ inFlight' \subseteq inFlight

\* C27: whatever join and leave calls were processed while tryMatch waited
\* for the session's initialization, when it has completed (stored or
\* rolled back) no playerId is in the queue twice, and no playerId is in
\* the queue while holding a match record that was not consumed.
C27_PairingAtomic ==
    [][ PairingCompletes =>
          /\ UniqueByPlayerId(queue')
          /\ \A i \in 1 .. Len(queue') : queue'[i].playerId \notin DOMAIN matchedPlayers'
      ]_vars

\* C28: a join that returns matched:true from tryMatch reports a pairing the
\* caller is one of the two players of, with the symbol and the token
\* posted to the session's /init for the caller; also when the queue held
\* two or more entries before the caller was enqueued.
C28_MatchInfoOnlyToMatched ==
    [][ \A call \in inFlight :
          (inFlight' = inFlight \ {call} /\ mmLast'.call = "join" /\ mmLast'.matched) =>
              /\ mmLast'.gameId = call.gameId
              /\ \E slot \in 1 .. 2 :
                     /\ InitBody(call).players[slot].id = mmLast'.playerId
                     /\ InitBody(call).players[slot].symbol = mmLast'.yourSymbol
                     /\ InitBody(call).players[slot].token = mmLast'.connectToken
      ]_vars

\* C29: when two or more players are in the queue (and a pairing can still
\* be made within MaxGames), they keep polling /join without leaving or
\* expiring and initialization succeeds when attempted, the players at the
\* head of the queue are eventually paired: the queue does not keep two
\* entries for ever; in particular the two players restored by a rolled-back
\* pairing are paired without a third player joining.
C29_QueuedEventuallyPaired ==
    [](Len(queue) >= 2 /\ nextGameId <= MaxGames
          => <>(Len(queue) < 2 \/ nextGameId > MaxGames))

(***************************************************************************)
(* Properties of the matchmaking actor's maintenance                       *)
(***************************************************************************)
\* C30: when a maintenance pass fails part-way (in the pruning, in the
\* hibernation check or in the scheduling), a next maintenance callback is
\* still scheduled: the storage alarm is set after the pass.
C30_MaintenanceSurvivesFailure ==
    [][ (mmLast'.call = "alarm" /\ cleanupAlarm'.failedAt # "none") => cleanupAlarm'.alarm ]_vars

\* a maintenance pass ran to its end without an exception
PassCompleted ==
    \E staleJoinedAt \in {0} \cup joinedAts, staleMatchedAt \in {0} \cup matchedAts,
       inactive \in BOOLEAN :
        QueueAlarm(staleJoinedAt, staleMatchedAt, inactive, "none")

SomethingToPrune == queue # << >> \/ DOMAIN matchedPlayers # {}

\* C31: in every reachable state of the matchmaking actor (no maintenance
\* pass having thrown) in which the queue or the match-record set is not
\* empty, a maintenance callback is pending; also for entries added after
\* the actor hibernated.
C31_MaintenanceArmed ==
    (cleanupAlarm.failedAt = "none" /\ SomethingToPrune) => cleanupAlarm.alarm

C37_KeptWitness ==
    /\ mmLast.call = "alarm"
    /\ cleanupAlarm.alarm /\ cleanupAlarm.quiet
    /\ queue # << >>

(***************************************************************************)
(* Properties of a session with a live connection                          *)
(***************************************************************************)
\* the Connection entries, the game state or the rate-limit map are cleared
Purged ==
    \/ this.players # << >> /\ this'.players = << >>
    \/ this.gameState # NoGame /\ this'.gameState = NoGame
    \/ this.moveRateLimit # << >> /\ this'.moveRateLimit = << >>

\* the step is one of the session's handlers, not the host evicting the object
HandlerRan == sessLast'.handler # "none"

ConnectSucceeds ==
    /\ \E input \in ConnectInputs : Connect(input[1], input[2])
    /\ sessLast'.status = 101

\* C32: a successful connection leaves no teardown alarm pending; an alarm
\* that fires while a Connection is marked connected only sets the next
\* alarm; and no handler clears the Connection entries, the game state or
\* the rate-limit map while a Connection is marked connected.
C32_LiveSessionNotPurged ==
    [][ /\ ConnectSucceeds => storage'.alarm = NoAlarm
        /\ (Alarm /\ SomebodyConnected) =>
               /\ storage'.alarm = now + 600000
               /\ this'.players = this.players
               /\ this'.gameState = this.gameState
               /\ this'.moveRateLimit = this.moveRateLimit
        /\ (SomebodyConnected /\ HandlerRan) => ~Purged
      ]_vars

\* the GAME_STATE messages of the last handler that tell of an absent opponent
OpponentOffline(sent, websocket) ==
    \E k \in 1 .. Len(sent) :
        /\ sent[k].to = websocket
        /\ sent[k].type = "GAME_STATE"
        /\ ~sent[k].payload.opponentConnected

\* C33: when the channel of a player marked connected closes, that player's
\* Connection is marked disconnected, every Connection still marked
\* connected is sent a GAME_STATE with opponentConnected false, and the
\* alarm is set anew: 1 minute ahead when no Connection is left connected,
\* 10 minutes ahead when one is.
C33_DisconnectHandling ==
    [][ \A websocket \in 1 .. MaxSockets :
          LET i == playerIndex(Ctx, sockets[websocket].playerId)
          IN  ( /\ CloseHandler(websocket)
                /\ i # 0
                /\ this.players[i].connected
                /\ this.players[i].websocket = websocket ) =>
                  /\ ~this'.players[i].connected
                  /\ \A j \in 1 .. Len(this'.players) :
                         this'.players[j].connected =>
                             OpponentOffline(outbox', this'.players[j].websocket)
                  /\ this'.cleanupAlarmId # NoAlarm
                  /\ storage'.alarm = now +
                         (IF \E j \in 1 .. Len(this'.players) : this'.players[j].connected
                          THEN 600000 ELSE 60000)
      ]_vars

(***************************************************************************)
(* Properties of the session's move log                                    *)
(***************************************************************************)
LogShape(log) ==
    \A i \in 1 .. Len(log) :
        /\ log[i].moveNumber = i
        /\ log[i].player = (IF i % 2 = 1 THEN X ELSE O)

\* log is extended by nothing or by one entry
GrowsByAtMostOne(log, later) ==
    /\ Len(later) \in {Len(log), Len(log) + 1}
    /\ SubSeq(later, 1, Len(log)) = log

\* a handler has broadcast the MOVE_RESULT of the move it accepted
AcceptedSent(sent) ==
    \E k \in 1 .. Len(sent) : sent[k].type = "MOVE_RESULT" /\ sent[k].payload.valid

\* C34: in every state of a session the move log, in memory and persisted,
\* is a sequence whose i-th entry has moveNumber i and whose players
\* alternate starting with X; a step only appends to the persisted log, and
\* a step appends exactly one entry exactly when it accepts a move.
C34_MoveLogShape ==
    [][ /\ LogShape(this'.moves)
        /\ LogShape(storage'.moves)
        /\ GrowsByAtMostOne(storage.moves, storage'.moves)
        /\ (outbox' # outbox /\ AcceptedSent(outbox')) <=>
               Len(storage'.moves) = Len(storage.moves) + 1
      ]_vars

\* C35: whenever the session has a game state, its board, currentPlayer
\* and status are those of the in-memory move log replayed from a new game
\* (a new game being one that is being played).
C35_BoardAndLogAgree ==
    (this.gameState # NoGame /\ newGameStatus = SpecNewGameStatus) =>
        /\ this.gameState.board = Replay(this.moves).board
        /\ this.gameState.currentPlayer = Replay(this.moves).currentPlayer
        /\ this.gameState.status = Replay(this.moves).status

(***************************************************************************)
(* Properties of the macro board                                           *)
(***************************************************************************)
\* the symbols that hold a full line of a 3x3 board
LineHolders(subBoard) ==
    { symbol \in PlayerSymbol :
          \E c \in 1 .. Len(WINNING_COMBINATIONS) :
              \A k \in 1 .. 3 : subBoard[WINNING_COMBINATIONS[c][k]] = symbol }

\* C36: in every game state reached from a new game by accepted moves each
\* macro cell holds the symbol that has a line in its sub-board, and is
\* empty while nobody has one (the sub-board open or drawn); a macro cell
\* that holds a symbol keeps it.
C36_MacroMirrorsSubBoards ==
    [][ \A b \in Idx :
          /\ LineHolders(game'.board.sub[b]) = {} => game'.board.main[b] = Null
          /\ LineHolders(game'.board.sub[b]) # {} =>
                 LineHolders(game'.board.sub[b]) = {game'.board.main[b]}
          /\ game.board.main[b] # Null => game'.board.main[b] = game.board.main[b]
      ]_vars

\* a sub-board is won, another is full without a line, and play goes on
C36_Witness ==
    /\ \E b \in Idx : game.board.main[b] # Null
    /\ \E b \in Idx : isSubBoardFull(game.board.sub[b]) /\ game.board.main[b] = Null
    /\ lastMove # NoMove

(***************************************************************************)
(* SpecLimiter: the matchmaking actor's fetch with the requests of one     *)
(* source IP counted by checkRateLimit, the clock and the cleanup alarm.   *)
(* The client sends joins and leaves of one player, status requests and    *)
(* requests to a path the actor does not serve.                            *)
(***************************************************************************)
\* the clock moves on by a window and a bit, or by the inactivity timeout
\* and a bit
ClockSteps == {windowMs + 1, hibernationTimeout + 1}

LimiterClient == "p1"

LimiterInit ==
    /\ limiter = Tracked
    /\ QueueIdle
    /\ ApplyIdle
    /\ ClientIdle
    /\ EngineIdle
    /\ WinnerIdle
    /\ SessIdle

\* fetch: checkRateLimit answers false
TooManyRequests ==
    /\ limiter.tracked
    /\ ~checkRateLimit(limiter).ok
    /\ limiter' = checkRateLimit(limiter).after
    /\ mmLast' = [NoResponse EXCEPT !.call = "fetch", !.status = 429]
    /\ UNCHANGED <<queue, matchedPlayers, inFlight, nextGameId, sessionInits, delivered,
                   cleanupAlarm>>
    /\ UNCHANGED <<engineVars, winVars, sessVars, applyVars, clientVars>>

\* fetch -> handleGetStatus
GetStatus ==
    /\ limiter.tracked
    /\ Serves
    /\ mmLast' = [NoResponse EXCEPT !.call = "status", !.status = 200,
                                    !.position = Len(queue)]
    /\ UNCHANGED <<queue, matchedPlayers, inFlight, nextGameId, sessionInits, delivered,
                   cleanupAlarm>>
    /\ UNCHANGED <<engineVars, winVars, sessVars, applyVars, clientVars>>

\* fetch with a method and path that match none of its routes: the request
\* is counted and answered 'Not found'; no handler runs, so updateActivity
\* does not
NotFound ==
    /\ limiter.tracked
    /\ checkRateLimit(limiter).ok
    /\ limiter.window.admitted <= maxRequests
    /\ limiter' = CountedIn(checkRateLimit(limiter).after)
    /\ mmLast' = [NoResponse EXCEPT !.call = "fetch", !.status = 404]
    /\ UNCHANGED <<queue, matchedPlayers, inFlight, nextGameId, sessionInits, delivered,
                   cleanupAlarm>>
    /\ UNCHANGED <<engineVars, winVars, sessVars, applyVars, clientVars>>

\* Date.now() moves on
LimiterTick(step) ==
    /\ limiter.ticks > 0
    /\ limiter' = [limiter EXCEPT !.now = @ + step, !.ticks = @ - 1]
    /\ UNCHANGED <<queue, matchedPlayers, inFlight, nextGameId, sessionInits, delivered,
                   mmLast, cleanupAlarm>>
    /\ UNCHANGED <<engineVars, winVars, sessVars, applyVars, clientVars>>

LimiterNext ==
    \/ JoinAlreadyQueued(LimiterClient)
    \/ JoinEnqueues(LimiterClient)
    \/ LeaveQueue(LimiterClient)
    \/ GetStatus
    \/ NotFound
    \/ TooManyRequests
    \/ \E step \in ClockSteps : LimiterTick(step)
    \/ \E staleJoinedAt \in {0} \cup joinedAts, inactive \in BOOLEAN :
           QueueAlarm(staleJoinedAt, 0, inactive, "none")

SpecLimiter == LimiterInit /\ [][LimiterNext]_vars

\* C38: between two resets of the window of a source IP, a window being
\* reset only by a request that arrives after its reset time, the
\* matchmaking actor admits at most maxRequests requests of that IP.
C38_QuotaPerWindow == limiter.window.admitted <= maxRequests

(***************************************************************************)
(* SpecRequests: the matchmaking actor's fetch with the /join and /leave   *)
(* requests of one source IP, well-formed and not, as handleJoinQueue and  *)
(* handleLeaveQueue validate them.  A request is its route, the length of  *)
(* its body, whether JSON.parse accepts the body, and the playerId and     *)
(* nickname fields of the parsed body.                                     *)
(***************************************************************************)
\* how many requests the source IP has left in its window when the run starts
MaxRequestsLeft == 5

\* a field of the parsed body: absent, a number, or a string
NoField == [kind |-> "undefined", chars |-> << >>]
NumberField == [kind |-> "number", chars |-> << >>]
StringField(chars) == [kind |-> "string", chars |-> chars]

\* String.prototype.trim
trim(input) ==
    LET kept == { i \in 1 .. Len(input) : input[i] \notin WhiteSpace }
    IN  IF kept = {} THEN << >>
        ELSE SubSeq(input, CHOOSE i \in kept : \A j \in kept : i <= j,
                           CHOOSE i \in kept : \A j \in kept : j <= i)

\* handleJoinQueue's blocklist
blocked ==
    << "fuck", "shit", "bitch", "asshole", "dick", "cunt", "pussy", "slut", "whore",
       "porn", "xxx" >>

\* mutant: the body's length is not looked at
tooLarge_Never(request) == FALSE

\* body.length > 1024
tooLarge(request) == request.bodyLength > 1024

\* handleJoinQueue, "Minimal nickname validation": one of its three 400s
nicknameRejected(nickname) ==
    /\ nickname.kind = "string"
    /\ LET trimmed == trim(nickname.chars)
           normalized == SelectSeq([i \in 1 .. Len(trimmed) |-> toLowerCase(trimmed[i])],
                                   LAMBDA ch : ch \notin WhiteSpace)
       IN  /\ Len(trimmed) > 0
           /\ \/ \E i \in 1 .. Len(trimmed) : ~isAllowed(trimmed[i])
              \/ Len(trimmed) < 3
              \/ Len(trimmed) > 20
              \/ \E k \in 1 .. Len(blocked) : includes(normalized, blocked[k])

\* a character of [a-zA-Z0-9\-_]
isIdChar(ch) == ch \in Range(UPPER) \cup Range(LOWER) \cup Range(DIGITS) \cup {"-", "_"}

\* "Validate playerId format and sanitize", "Sanitize playerId"
playerIdRejected(playerId) ==
    \/ playerId.kind # "string"
    \/ Len(playerId.chars) = 0
    \/ Len(playerId.chars) > 100
    \/ \E i \in 1 .. Len(playerId.chars) : ~isIdChar(playerId.chars[i])

\* the request gets one of the 400s that handleJoinQueue and
\* handleLeaveQueue return before they look at the queue; a body that
\* JSON.parse refuses throws into the catch block
malformed(request) ==
    \/ tooLarge(request)
    \/ ~request.parses
    \/ request.route = "join" /\ nicknameRejected(request.nickname)
    \/ playerIdRejected(request.playerId)

Request(route, bodyLength, parses, playerId, nickname) ==
    [ route |-> route, bodyLength |-> bodyLength, parses |-> parses,
      playerId |-> playerId, nickname |-> nickname ]

GoodRequests ==
    { Request(route, 40, TRUE, StringField(Chars(playerId)), nickname) :
          route \in {"join", "leave"}, playerId \in PlayerIds,
          nickname \in {NoField, StringField(Chars(" Ann 1 "))} }

\* requests the actor must refuse; but for the one fault each is a
\* join or leave of p1
BadRequests ==
    { Request(route, 1025, TRUE, StringField(Chars("p1")), NoField) :
          route \in {"join", "leave"} }
    \cup { Request(route, 40, FALSE, StringField(Chars("p1")), NoField) :
          route \in {"join", "leave"} }
    \cup { Request(route, 40, TRUE, playerId, NoField) :
          route \in {"join", "leave"},
          playerId \in { NoField, NumberField, StringField(<< >>),
                         StringField(Repeat("p", 101)), StringField(Chars("p 1")),
                         StringField(Chars("p1!")) } }
    \cup { Request("join", 40, TRUE, StringField(Chars("p1")), StringField(nickname)) :
          nickname \in { Chars("a!c"), Chars("ab"), Repeat("a", 21), Chars("Sh it") } }

Requests == GoodRequests \cup BadRequests

\* the playerId the handlers use
idOf(playerId) == CHOOSE p \in PlayerIds : Chars(p) = playerId.chars

\* the rate limit window of the source IP with MaxRequestsLeft requests left
NearQuota ==
    [ Tracked EXCEPT !.ticks = 0, !.count = maxRequests - MaxRequestsLeft,
                     !.resetTime = windowMs,
                     !.window = [resetTime |-> windowMs,
                                 admitted |-> maxRequests - MaxRequestsLeft] ]

RequestsInit ==
    /\ limiter = NearQuota
    /\ QueueIdle
    /\ ApplyIdle
    /\ ClientIdle
    /\ EngineIdle
    /\ WinnerIdle
    /\ SessIdle

\* handleJoinQueue or handleLeaveQueue answers 400 from its validation
BadRequest(request) ==
    /\ Serves
    /\ mmLast' = [NoResponse EXCEPT !.call = request.route, !.status = 400]
    /\ UNCHANGED <<queue, matchedPlayers, inFlight, nextGameId, sessionInits, delivered,
                   cleanupAlarm>>
    /\ UNCHANGED <<engineVars, winVars, sessVars, applyVars, clientVars>>

\* fetch with a POST to /join or /leave
Fetch(request) ==
    IF ~checkRateLimit(limiter).ok THEN TooManyRequests
    ELSE IF malformed(request) THEN BadRequest(request)
    ELSE IF request.route = "join"
    THEN \/ JoinClaimsMatch(idOf(request.playerId))
         \/ JoinAlreadyQueued(idOf(request.playerId))
         \/ JoinEnqueues(idOf(request.playerId))
         \/ JoinStartsMatch(idOf(request.playerId))
    ELSE LeaveQueue(idOf(request.playerId))

RequestsNext ==
    \/ \E request \in Requests : Fetch(request)
    \/ InitResolves
    \/ InitRejects

SpecRequests == RequestsInit /\ [][RequestsNext]_vars

\* the step is fetch with a request the actor refuses: the source IP is over
\* its quota, or the request is one of BadRequests
RejectedFetch ==
    \/ ~checkRateLimit(limiter).ok /\ \E request \in Requests : Fetch(request)
    \/ \E request \in BadRequests : Fetch(request)

\* C39: a /join or /leave request that is over the rate limit, or has a
\* body over 1024 characters, a body that does not parse, a playerId that is
\* missing, not a string, empty, over 100 characters or outside
\* [a-zA-Z0-9-_], or (a join) an invalid nickname, is answered 429 or 400 and
\* leaves the queue and the match records as they were: a step that changes
\* either, or answers otherwise, is not the fetch of such a request.
C39_RejectedChangesNothing ==
    [][ ~( /\ mmLast'.status \in {400, 429}
           /\ queue' = queue
           /\ matchedPlayers' = matchedPlayers )
        => ~RejectedFetch
      ]_vars

\* a malformed request was refused while a player waited and a match record
\* was held
C39_Witness ==
    /\ mmLast.status = 400
    /\ mmLast.pair = << >>
    /\ queue # << >>
    /\ DOMAIN matchedPlayers # {}

(***************************************************************************)
(* SpecSocket: one GameWebSocket of the client, with the user calling      *)
(* connect() and disconnect(), the events of its WebSockets and the        *)
(* callbacks of setTimeout.  The readyState of a socket: CONNECTING, OPEN, *)
(* CLOSING (close() was called on an open socket), ABORTED (close() was    *)
(* called before the connection was established), FAILED (its error event  *)
(* was fired), CLOSED.                                                     *)
(***************************************************************************)
maxReconnectAttempts == 5

\* the sockets created so far
Created(g) == { k \in 1 .. MaxClientSockets : g.sockets[k] # "none" }

\* connect()
connect(g) ==
    IF g.ws # 0 /\ g.sockets[g.ws] = "OPEN" THEN g
    ELSE LET k == Cardinality(Created(g)) + 1
         IN  [g EXCEPT !.status = "connecting", !.ws = k, !.sockets[k] = "CONNECTING"]

\* connect() returns at once or MaxClientSockets are not used up
CanConnect(g) ==
    \/ g.ws # 0 /\ g.sockets[g.ws] = "OPEN"
    \/ Cardinality(Created(g)) < MaxClientSockets

\* disconnect()
disconnect(g) ==
    IF g.ws # 0
    THEN [g EXCEPT !.sockets[g.ws] =
                       IF @ = "OPEN" THEN "CLOSING"
                       ELSE IF @ = "CONNECTING" THEN "ABORTED" ELSE @,
                   !.ws = 0, !.status = "disconnected"]
    ELSE [g EXCEPT !.status = "disconnected"]

\* attemptReconnect()
attemptReconnect(g) ==
    [g EXCEPT !.reconnectAttempts = @ + 1, !.status = "connecting", !.timers = @ + 1,
              !.reconnectDelay = IF @ * 2 < 30000 THEN @ * 2 ELSE 30000]

\* the close codes a socket in a readyState can end with: 1000 only after a
\* closing handshake
CloseCodes(readyState) ==
    IF readyState \in {"OPEN", "CLOSING"} THEN {1000, 1006}
    ELSE IF readyState \in {"CONNECTING", "ABORTED", "FAILED"} THEN {1006}
    ELSE {}

SocketInit ==
    /\ ClientIdle
    /\ EngineIdle
    /\ WinnerIdle
    /\ MMIdle
    /\ SessIdle
    /\ ApplyIdle

\* the user's code calls connect()
UserConnect ==
    /\ CanConnect(gws)
    /\ gws' = [connect(gws) EXCEPT !.userDisconnected = FALSE]
    /\ UNCHANGED <<note, store, engineVars, winVars, mmVars, sessVars, applyVars>>

\* the user's code calls disconnect()
UserDisconnect ==
    /\ gws' = [disconnect(gws) EXCEPT !.userDisconnected = TRUE]
    /\ UNCHANGED <<note, store, engineVars, winVars, mmVars, sessVars, applyVars>>

\* ws.onopen of socket k
OnOpen(k) ==
    /\ gws.sockets[k] = "CONNECTING"
    /\ gws' = [gws EXCEPT !.sockets[k] = "OPEN", !.status = "connected",
                          !.reconnectAttempts = 0, !.reconnectDelay = 1000]
    /\ UNCHANGED <<note, store, engineVars, winVars, mmVars, sessVars, applyVars>>

\* ws.onerror of socket k
OnError(k) ==
    /\ gws.sockets[k] \in {"CONNECTING", "OPEN"}
    /\ gws' = [gws EXCEPT !.sockets[k] = "FAILED", !.status = "error"]
    /\ UNCHANGED <<note, store, engineVars, winVars, mmVars, sessVars, applyVars>>

\* ws.onclose of socket k with event.code = code
OnClose(k, code) ==
    /\ code \in CloseCodes(gws.sockets[k])
    /\ LET closed == [gws EXCEPT !.sockets[k] = "CLOSED", !.ws = 0]
       IN  gws' = IF code # 1000 /\ closed.reconnectAttempts < maxReconnectAttempts
                  THEN attemptReconnect(closed)
                  ELSE [closed EXCEPT !.status = "disconnected"]
    /\ UNCHANGED <<note, store, engineVars, winVars, mmVars, sessVars, applyVars>>

\* the callback attemptReconnect gave to setTimeout runs
TimerFires ==
    /\ gws.timers > 0
    /\ CanConnect(gws)
    /\ gws' = [connect(gws) EXCEPT !.timers = @ - 1]
    /\ UNCHANGED <<note, store, engineVars, winVars, mmVars, sessVars, applyVars>>

SocketNext ==
    \/ UserConnect
    \/ UserDisconnect
    \/ \E k \in 1 .. MaxClientSockets : OnOpen(k)
    \/ \E k \in 1 .. MaxClientSockets : OnError(k)
    \/ \E k \in 1 .. MaxClientSockets, code \in {1000, 1006} : OnClose(k, code)
    \/ TimerFires

SpecSocket == SocketInit /\ [][SocketNext]_vars

\* C40: once disconnect() has been called, no new socket is created until
\* the user calls connect() again: a step that creates a socket ends with
\* no disconnect() since the user's last connect().
C40_NoReconnectAfterDisconnect ==
    [][ Created(gws') # Created(gws) => ~gws'.userDisconnected ]_vars

====
